---- MODULE Spec2Model ----
(***************************************************************************)
(* Quote server (quote_server) and its thin client (quote_client).         *)
(*                                                                         *)
(* The model follows the sources:                                          *)
(*   generator.rs  QuoteGenerator (quote board, next_gen)                  *)
(*   channels.rs   start_generator, gen_tickers_dispatcher, tickers_sender *)
(*   models.rs     ClientSubscription, ClientManager                       *)
(*   tcp.rs        gen_id, Command::make_client, run_server, handle_client *)
(*   udp.rs        spawn_stream (the per-subscription transmitter)         *)
(*                                                                         *)
(* Prices are fixed-point numbers in tenths (0.5 is 5, 1500.0 is 15000);   *)
(* a random draw from a real interval is a choice among the grid points of *)
(* the interval that Draws selects.  Time is counted in whole seconds.     *)
(***************************************************************************)
EXTENDS Integers, Sequences, FiniteSets, TLC

(***************************************************************************)
(* Bounds of the model.                                                    *)
(***************************************************************************)
MaxConn == 2   \* TCP connections accepted by run_server
DataConn == 1  \* of these, the connections that send commands in Spec
MaxSubs == 2   \* ClientSubscription objects built by successful STREAMs
LiveSubs == 1  \* the same, in SpecLive
MaxGen == 2    \* quotes produced by next_gen
MaxTime == 6   \* seconds the clock may advance
BusCap == 1    \* capacity of the generator's channel
InboxCap == 2  \* capacity of the channel the transmitters read
SockCap == 1      \* datagrams waiting in a transmitter's socket
MinSenders == 2   \* fewest senders tickers_sender is called with in SpecSend
MaxSenders == 3   \* most senders tickers_sender is called with in SpecSend
MaxSources == 3   \* addresses datagrams reach the client from in SpecClient
MaxGot == 3       \* datagrams the client's recv_loop receives
MaxLines == 2     \* most tickers a ticker file of SpecCli lists

(***************************************************************************)
(* Program constants.                                                      *)
(***************************************************************************)
CLIENTS_COUNTER_INIT == 1000      \* tcp.rs: AtomicUsize::new(1000)
UDP_PING_TIMEOUT_SECS == 5        \* config.rs
DEFAULT_SERVER_PORT == 8888       \* config.rs DEFAULT_SERVER_PORT
UDP_CALLBACK == "127.0.0.1"       \* quote_client config.rs UDP_CALLBACK
U16Max == 65535                   \* u16::MAX, the type of a port
PING_INTERVAL_SECS == 2           \* quote_client config (the interval of the liveness thread)
ExpensiveMin == 5000              \* QUOTE_SETTINGS.expensive.0 = 500.0
ExpensiveMax == 15000             \* QUOTE_SETTINGS.expensive.1 = 1500.0
MiddleMin == 1000                 \* QUOTE_SETTINGS.middle.0 = 100.0
MiddleMax == 4990                 \* QUOTE_SETTINGS.middle.1 = 499.0
LowMin == 5                       \* QUOTE_SETTINGS.low.0 = 0.5
LowMax == 999                     \* QUOTE_SETTINGS.low.1 = 99.9
TopSharePct == 10                 \* QUOTE_SETTINGS.top_share = 0.10
MiddleSharePct == 40              \* QUOTE_SETTINGS.middle_share = 0.40
UnitsMin == 1                     \* QUOTE_SETTINGS.units_per_trade.0
UnitsMax == 500000                \* QUOTE_SETTINGS.units_per_trade.1

\* data/tickers.txt as get_ticker_data returns it: the lists the model loads.
TickerFiles == { <<"AAPL", "MSFT">>, <<"AAPL", "MSFT", "TSLA", "GOOG">> }
\* The list the server specification runs with.
ServerTickerFile == <<"AAPL", "MSFT">>

VARIABLES
    tickers_vec,      \* QuoteGenerator::get_ticker_data(): the loaded list
    quote_board,      \* QuoteGenerator.quote_board: ticker -> price
    emitted,          \* history: the quotes next_gen has returned, in order
    gen_alive,        \* the generator thread is in its loop
    bus,              \* the generator's channel (quote_tx -> main_receiver)
    CLIENTS_COUNTER,  \* tcp.rs static CLIENTS_COUNTER
    alloc,            \* history: the ids gen_id has returned, in order
    running,          \* run_server: the flag the Ctrl-C handler clears
    srv,              \* run_server: position of the listener thread
    conn,             \* per connection: handle_client's position and id
    written,          \* what the last step wrote to a connection (Nothing if nothing)
    clients,          \* ClientManager.clients: id -> subscription object
    lock,             \* owner of the Mutex<ClientManager>
    subs,             \* the ClientSubscription objects built by make_client
    stop_flag,        \* per object: its Arc<AtomicBool>
    cancelled,        \* history: a CANCEL was processed after the STREAM
    tx,               \* per object: its transmitter thread (spawn_stream)
    sent,             \* per object: the datagrams sent to its udp_url
    sock,             \* per object: datagrams waiting in the transmitter's socket
    inbox,            \* the channel handed to run_server (client.recv)
    disp,             \* gen_tickers_dispatcher: position, quote, senders
    disp_stop,        \* the dispatcher's stop flag
    now,              \* the clock, in seconds
    wire,             \* one quote on its way: record, payload, datagram, decoded record
    client,           \* quote_client UdpClient: server_addr and its ping thread
    cli               \* quote_client ClientSet under construction: arguments and result

vars == << tickers_vec, quote_board, emitted, gen_alive, bus, CLIENTS_COUNTER,
           alloc, running, srv, conn, written, clients, lock, subs,
           stop_flag, cancelled, tx, sent, sock, inbox, disp, disp_stop, now,
           wire, client, cli >>

genVars == << tickers_vec, quote_board, emitted, gen_alive, bus >>
tcpVars == << CLIENTS_COUNTER, alloc, running, srv, conn, clients,
              lock, subs, stop_flag, cancelled >>
udpVars == << tx, sent, sock >>
dispVars == << disp, disp_stop >>
clientVars == << wire, client, cli >>

Range(s) == { s[i] : i \in DOMAIN s }

Conns == 1..MaxConn

\* A channel that hands out the newest item first.
send_timeout_lifo(queue, item, cap) == IF Len(queue) < cap THEN << item >> \o queue ELSE queue

\* crossbeam_channel send_timeout on a channel of capacity cap: the queue
\* after the call (unchanged when the channel stays full until the timeout).
send_timeout(queue, item, cap) == IF Len(queue) < cap THEN Append(queue, item) ELSE queue

\* crossbeam_channel recv_timeout on a non-empty channel: the item received
\* and the queue after the call.
recv_timeout(queue) == [ item |-> Head(queue), rest |-> Tail(queue) ]

\* A line is its first token, the number of tokens after it, the URL token
\* and the ticker token; the ticker token is the list of its comma-separated
\* items ("ALL" is the one-item list <<"ALL">>).
Line(cmd, nargs, url, spec) == [ cmd |-> cmd, nargs |-> nargs, url |-> url, spec |-> spec ]

\* No line.
NoLine == Line("", 0, "", << >>)

\* ServerResponse::send: the response written to connection c for the line
\* read.  Nothing: no response is written.
Response(c, line, text) == [ c |-> c, line |-> line, text |-> text ]
Nothing == Response(0, NoLine, << >>)


(***************************************************************************)
(* generator.rs: the quote board and next_gen.                             *)
(***************************************************************************)
\* randomizer.rs shuffle_vec: every ordering of the list.
shuffle_vec(v) ==
    { p \in [1..Len(v) -> Range(v)] : \A i, j \in 1..Len(v) : i # j => p[i] # p[j] }

\* randomizer.rs random_by_tuple over the real interval [lo100/100, hi100/100]:
\* the grid points the model draws are the two ends and the middle.
Draws(lo100, hi100) ==
    LET lo == (lo100 + 99) \div 100
        hi == hi100 \div 100
    IN  { lo, (lo + hi) \div 2, hi }

\* ((total as f64) * share).ceil() for a share given in percent.
ShareCount(total, pct) == (total * pct + 99) \div 100

\* The band init_quote_board draws the price of the i-th shuffled ticker from.
TierBand(i, total) ==
    LET expensive_count == ShareCount(total, TopSharePct)
        middle_count == ShareCount(total, MiddleSharePct)
    IN  IF i <= expensive_count THEN << ExpensiveMin, ExpensiveMax >>
        ELSE IF i <= expensive_count + middle_count THEN << MiddleMin, MiddleMax >>
        ELSE << LowMin, LowMax >>

\* Every price a draw from one of the three tier bands can give.
TierDraws ==
    Draws(ExpensiveMin * 100, ExpensiveMax * 100)
        \cup Draws(MiddleMin * 100, MiddleMax * 100)
        \cup Draws(LowMin * 100, LowMax * 100)

\* init_quote_board: the boards it can build for a loaded list.
init_quote_board(v) ==
    UNION { { b \in [Range(v) -> TierDraws] :
                \A i \in 1..Len(v) :
                    b[p[i]] \in Draws(TierBand(i, Len(v))[1] * 100,
                                      TierBand(i, Len(v))[2] * 100) }
            : p \in shuffle_vec(v) }

\* randomizer.rs random_choice_str over the generator's ticker_data.
random_choice_str(seq) == seq

\* The interval with no clamp into a tier band.
PriceRange_noclamp(old_price) == << old_price * 90, old_price * 110 >>

\* The interval update_price_random draws the new price from, in hundredths
\* of the price unit: calc_min = old * 90 / 100, calc_max = old * 110 / 100.
PriceRange(old_price) ==
    LET calc_min100 == old_price * 90
        calc_max100 == old_price * 110
        below == calc_min100 < LowMin * 100
        above == calc_max100 > ExpensiveMax * 100
    IN  IF below /\ ~above THEN << LowMin * 100, LowMax * 100 >>
        ELSE IF ~below /\ above THEN << ExpensiveMin * 100, ExpensiveMax * 100 >>
        ELSE << calc_min100, calc_max100 >>

\* update_price_random: the prices it can return for a ticker on the board;
\* changes are the outcomes of random_bool(probability_change_price) that
\* are drawn (FALSE: the old price is returned and the board is not written).
update_price_random(board, ticker, changes) ==
    (IF FALSE \in changes THEN { board[ticker] } ELSE {})
    \cup
    (IF TRUE \in changes
     THEN Draws(PriceRange(board[ticker])[1], PriceRange(board[ticker])[2])
     ELSE {})

\* A quote built with the ticker in lower case.
new_quote_lower(ticker, price, n) ==
    [ fmt |-> "json", ticker |-> IF ticker = "AAPL" THEN "aapl" ELSE "other",
      price |-> price, seq |-> n ]

\* new_quote and serde_json::to_string: the payload put on the bus.  seq is
\* the position in the generator's emission order (it stands for the rest of
\* the record: volume, timestamp, transaction).
new_quote(ticker, price, n) ==
    [ fmt |-> "json", ticker |-> ticker, price |-> price, seq |-> n ]

\* A bus that never reports Disconnected.
BusDisconnected_never == FALSE

\* send_timeout on the bus gives Disconnected: the receiver is dropped,
\* which the dispatcher thread does when it ends.
BusDisconnected == disp.pc = "done"

\* One pass of the start_generator loop: sleep, next_gen, serialize,
\* send_timeout, for the given outcomes of random_bool.  next_gen fails (no quote) when the chosen ticker is not on
\* the board; a full bus drops the quote; a closed bus ends the thread.
GeneratorTick(changes) ==
    /\ gen_alive
    /\ srv # "exited"
    /\ Len(emitted) < MaxGen
    /\ \E ticker \in random_choice_str(Range(tickers_vec)) :
         IF ticker \notin DOMAIN quote_board
         THEN UNCHANGED genVars
         ELSE \E price \in update_price_random(quote_board, ticker, changes) :
                LET q == new_quote(ticker, price, Len(emitted) + 1) IN
                /\ quote_board' = [quote_board EXCEPT ![ticker] = price]
                /\ emitted' = Append(emitted, q)
                /\ IF BusDisconnected
                   THEN gen_alive' = FALSE /\ bus' = bus
                   ELSE /\ gen_alive' = gen_alive
                        /\ bus' = send_timeout(bus, q, BusCap)
                /\ UNCHANGED tickers_vec
    /\ written' = Nothing
    /\ UNCHANGED << tcpVars, udpVars, dispVars, inbox, now, clientVars >>

(***************************************************************************)
(* tcp.rs: session ids, commands, the registry.                            *)
(***************************************************************************)
\* A counter that is read and not advanced.
gen_id_load(counter) == [ id |-> counter, counter |-> counter ]

\* gen_id: CLIENTS_COUNTER.fetch_add(1) returns the value before the add.
gen_id(counter) == [ id |-> counter, counter |-> counter + 1 ]

\* str::to_uppercase on the tokens the model uses.
to_uppercase(s) ==
    CASE s = "stream" -> "STREAM"
      [] s = "Stream" -> "STREAM"
      [] s = "cancel" -> "CANCEL"
      [] s = "all" -> "ALL"
      [] s = "All" -> "ALL"
      [] s = "aapl" -> "AAPL"
      [] s = "msft" -> "MSFT"
      [] OTHER -> s

\* Command::from_str on the first token of a line (QuoteEnumDisplay matches
\* the lower-cased token, which is the upper-cased token here).
CommandFromStr(tok) ==
    CASE to_uppercase(tok) = "STREAM" -> "Stream"
      [] to_uppercase(tok) = "CANCEL" -> "Cancel"
      [] OTHER -> "Err"

\* Url::parse and Url::scheme on the URL tokens the model uses.
UrlParse(tok) ==
    CASE tok = "udp://127.0.0.1:34254" -> [ ok |-> TRUE, scheme |-> "udp", port |-> "34254" ]
      [] tok = "http://127.0.0.1:34254" -> [ ok |-> TRUE, scheme |-> "http", port |-> "34254" ]
      [] tok = "UDP://127.0.0.1:34254" -> [ ok |-> TRUE, scheme |-> "udp", port |-> "34254" ]
      [] OTHER -> [ ok |-> FALSE, scheme |-> "", port |-> "" ]

\* The items of a ticker token after trim, to_uppercase and the removal of
\* empty items.
InputSet(spec) == { to_uppercase(spec[i]) : i \in DOMAIN spec } \ { "" }

\* cmd_parts[1].to_uppercase() == "ALL"
IsAll(spec) == Len(spec) = 1 /\ to_uppercase(spec[1]) = "ALL"

\* make_client with no check of the URL's scheme.
make_client_anyscheme(unique_id, c, line, tickers_set) ==
    IF line.nargs < 2 THEN [ ok |-> FALSE, err |-> "komanda nepolnaya" ]
    ELSE IF ~UrlParse(line.url).ok THEN [ ok |-> FALSE, err |-> "nekorrektnyi udp-adres" ]
    ELSE IF IsAll(line.spec)
         THEN [ ok |-> TRUE, unique_id |-> unique_id, tcp_addr |-> c,
                udp_url |-> UrlParse(line.url).port, tickers |-> tickers_set ]
    ELSE IF InputSet(line.spec) \subseteq tickers_set
         THEN [ ok |-> TRUE, unique_id |-> unique_id, tcp_addr |-> c,
                udp_url |-> UrlParse(line.url).port, tickers |-> InputSet(line.spec) ]
    ELSE [ ok |-> FALSE, err |-> "nekorrektnye tikery" ]

\* Command::Stream.make_client: the subscription, or the error detail (the
\* Russian details of the source are written in Latin letters).
make_client(unique_id, c, line, tickers_set) ==
    IF line.nargs < 2 THEN [ ok |-> FALSE, err |-> "komanda nepolnaya" ]
    ELSE IF ~UrlParse(line.url).ok THEN [ ok |-> FALSE, err |-> "nekorrektnyi udp-adres" ]
    ELSE IF UrlParse(line.url).scheme # "udp"
         THEN [ ok |-> FALSE, err |-> "podderzhivaetsya tolko UDP" ]
    ELSE IF IsAll(line.spec)
         THEN [ ok |-> TRUE, unique_id |-> unique_id, tcp_addr |-> c,
                udp_url |-> UrlParse(line.url).port, tickers |-> tickers_set ]
    ELSE IF InputSet(line.spec) \subseteq tickers_set
         THEN [ ok |-> TRUE, unique_id |-> unique_id, tcp_addr |-> c,
                udp_url |-> UrlParse(line.url).port, tickers |-> InputSet(line.spec) ]
    ELSE [ ok |-> FALSE, err |-> "nekorrektnye tikery" ]

\* ServerResponse::ok / ServerResponse::err with Display: the text that
\* ServerResponse::send writes, as the list of its parts.
ResponseOk(message) == IF message = "" THEN << "OK" >> ELSE << "OK", "|", message >>
\* An error built as a success.
ResponseErr_ok(message) == IF message = "" THEN << "OK" >> ELSE << "OK", "|", message >>
ResponseErr(message) == IF message = "" THEN << "ERROR" >> ELSE << "ERROR", "|", message >>

\* An insert that replaces the entry of an id that is present.
add_client_insert(map, unique_id, k) ==
    [ i \in DOMAIN map \cup { unique_id } |-> IF i = unique_id THEN k ELSE map[i] ]

\* ClientManager::add_client: the map after the call (unchanged when the id
\* is present).
add_client(map, unique_id, k) ==
    IF unique_id \in DOMAIN map THEN map
    ELSE [ i \in DOMAIN map \cup { unique_id } |-> IF i = unique_id THEN k ELSE map[i] ]

\* A removal that looks the client up and leaves it in the map.
remove_client_get(map, unique_id) == map

\* ClientManager::remove_client: the map after the call.
remove_client(map, unique_id) ==
    [ i \in DOMAIN map \ { unique_id } |-> map[i] ]

\* The Mutex<ClientManager>.
Free == [ who |-> "free", c |-> 0 ]
HeldBy(who, c) == [ who |-> who, c |-> c ]
\* A lock that is always granted.
LockFree_always == TRUE
LockFree == lock = Free

\* The receiver every subscription of handle_client gets: a clone of the one
\* channel run_server was given (tcp.rs: `let recv = receiver.clone()`).
receiver_clone(c) == "receiver"

\* The lines the clients of the model send.
StreamLines ==
    { Line("STREAM", 2, "udp://127.0.0.1:34254", << "ALL" >>),
      Line("stream", 2, "udp://127.0.0.1:34254", << "AAPL" >>) }

\* Further well-formed STREAM lines: other letter cases, a list of two
\* tickers, a third argument, and the list "," whose items are all empty.
MoreStreamLines ==
    { Line("Stream", 2, "udp://127.0.0.1:34254", << "all" >>),
      Line("STREAM", 2, "UDP://127.0.0.1:34254", << "All" >>),
      Line("STREAM", 2, "udp://127.0.0.1:34254", << "aapl", "MSFT" >>),
      Line("STREAM", 3, "udp://127.0.0.1:34254", << "MSFT" >>),
      Line("STREAM", 2, "udp://127.0.0.1:34254", << "", "" >>) }

\* Malformed STREAM lines: arguments missing, a URL that does not parse, a
\* scheme that is not udp, tickers that are not loaded.
BadStreamLines ==
    { Line("STREAM", 0, "", << >>),
      Line("stream", 1, "udp://127.0.0.1:34254", << >>),
      Line("STREAM", 1, "http://127.0.0.1:34254", << >>),
      Line("STREAM", 2, "127.0.0.1:34254", << "ALL" >>),
      Line("STREAM", 2, "http://127.0.0.1:34254", << "ALL" >>),
      Line("STREAM", 2, "http://127.0.0.1:34254", << "UNKNOWN" >>),
      Line("STREAM", 2, "udp://127.0.0.1:34254", << "UNKNOWN" >>),
      Line("STREAM", 2, "udp://127.0.0.1:34254", << "AAPL", "UNKNOWN" >>),
      Line("STREAM", 2, "udp://127.0.0.1:34254", << "ALL", "AAPL" >>) }

\* Lines whose first token is no command.
JunkLines == { Line("FOO", 1, "BAR", << >>), Line("STREAMS", 2, "udp://127.0.0.1:34254", << "ALL" >>) }

NoPending == [ tickers |-> {}, udp_url |-> "", line |-> NoLine ]

Subs == 1..Len(subs)

(***************************************************************************)
(* tcp.rs run_server: the listener thread.                                 *)
(***************************************************************************)
\* The Ctrl-C handler: running.store(false).
CtrlC ==
    /\ running
    /\ srv \notin { "swept", "exited" }
    /\ running' = FALSE
    /\ written' = Nothing
    /\ UNCHANGED << genVars, CLIENTS_COUNTER, alloc, srv, conn, clients,
                    lock, subs, stop_flag, cancelled, udpVars, dispVars, inbox, now, clientVars >>

\* The listener is at listener.accept() after a loop-top check that saw
\* running = true.  accept returns a connection: spawn handle_client for it,
\* then the next loop-top check.
ServerAccept(c) ==
    /\ srv = "listen"
    /\ conn[c].pc = "none"
    /\ \A d \in Conns : d < c => conn[d].pc # "none"
    /\ conn' = [conn EXCEPT ![c].pc = "greet"]
    /\ srv' = IF running THEN "listen" ELSE "sweep"
    /\ written' = Nothing
    /\ UNCHANGED << genVars, CLIENTS_COUNTER, alloc, running, clients,
                    lock, subs, stop_flag, cancelled, udpVars, dispVars, inbox, now, clientVars >>

\* accept returns WouldBlock: sleep, then the loop-top check leaves the loop
\* when running is false (and changes nothing when it is true).
ServerWouldBlock ==
    /\ srv = "listen"
    /\ ~running
    /\ srv' = "sweep"
    /\ written' = Nothing
    /\ UNCHANGED << genVars, CLIENTS_COUNTER, alloc, running, conn, clients,
                    lock, subs, stop_flag, cancelled, udpVars, dispVars, inbox, now, clientVars >>

\* After the loop: lock the manager and set the stop flag of every client.
ServerSweep ==
    /\ srv = "sweep"
    /\ LockFree
    /\ stop_flag' = [ k \in DOMAIN stop_flag |->
                        IF \E i \in DOMAIN clients : clients[i] = k
                        THEN TRUE ELSE stop_flag[k] ]
    /\ srv' = "swept"
    /\ written' = Nothing
    /\ UNCHANGED << genVars, CLIENTS_COUNTER, alloc, running, conn, clients,
                    lock, subs, cancelled, udpVars, dispVars, inbox, now, clientVars >>

\* run_server returns and main returns: the process ends with its threads.
ProcessExit ==
    /\ srv = "swept"
    /\ srv' = "exited"
    /\ written' = Nothing
    /\ UNCHANGED << genVars, CLIENTS_COUNTER, alloc, running, conn, clients,
                    lock, subs, stop_flag, cancelled, udpVars, dispVars, inbox, now, clientVars >>

(***************************************************************************)
(* tcp.rs handle_client: one thread per connection.                        *)
(***************************************************************************)
\* The banner, the help block, READY, then id_client = gen_id().
Greet(c) ==
    /\ srv # "exited"
    /\ conn[c].pc = "greet"
    /\ conn' = [conn EXCEPT ![c].pc = "read", ![c].id = gen_id(CLIENTS_COUNTER).id]
    /\ CLIENTS_COUNTER' = gen_id(CLIENTS_COUNTER).counter
    /\ alloc' = Append(alloc, gen_id(CLIENTS_COUNTER).id)
    /\ written' = Nothing
    /\ UNCHANGED << genVars, running, srv, clients, lock, subs, stop_flag,
                    cancelled, udpVars, dispVars, inbox, now, clientVars >>

\* A STREAM line: make_client; on an error reply and read on, else take the
\* manager's lock.  cap bounds the subscription objects of the model.
StreamCmd(c, line, cap) ==
    /\ srv # "exited"
    /\ conn[c].pc = "read"
    /\ CommandFromStr(line.cmd) = "Stream"
    /\ LET r == make_client(conn[c].id, c, line, Range(tickers_vec)) IN
       IF r.ok
       THEN /\ Len(subs) < cap
            /\ LockFree
            /\ lock' = HeldBy("handler", c)
            /\ conn' = [conn EXCEPT ![c].pc = "stream",
                                    ![c].pending = [ tickers |-> r.tickers,
                                                     udp_url |-> r.udp_url,
                                                     line |-> line ]]
            /\ written' = Nothing
       ELSE /\ written' = Response(c, line, ResponseErr(r.err))
            /\ conn' = [conn EXCEPT ![c].rejected = TRUE]
            /\ lock' = lock
    /\ UNCHANGED << genVars, CLIENTS_COUNTER, alloc, running, srv, clients, subs,
                    stop_flag, cancelled, udpVars, dispVars, inbox, now, clientVars >>

\* Under the lock: add_client(client.clone()).ok(); spawn_stream(client);
\* then the reply OK|stream started.
StreamBody(c) ==
    /\ srv # "exited"
    /\ conn[c].pc = "stream"
    /\ LET k == Len(subs) + 1 IN
       /\ subs' = Append(subs, [ unique_id |-> conn[c].id, tcp_addr |-> c,
                                 udp_url |-> conn[c].pending.udp_url,
                                 tickers |-> conn[c].pending.tickers,
                                 recv |-> receiver_clone(c) ])
       /\ stop_flag' = Append(stop_flag, FALSE)
       /\ cancelled' = Append(cancelled, FALSE)
       /\ clients' = add_client(clients, conn[c].id, k)
       /\ tx' = Append(tx, [ pc |-> "start", last_ping |-> 0, why |-> "", late |-> 0 ])
       /\ sent' = Append(sent, << >>)
       /\ sock' = Append(sock, << >>)
    /\ lock' = Free
    /\ written' = Response(c, conn[c].pending.line, ResponseOk("stream started"))
    /\ conn' = [conn EXCEPT ![c].pc = "read", ![c].pending = NoPending]
    /\ UNCHANGED << genVars, CLIENTS_COUNTER, alloc, running, srv, dispVars, inbox, now, clientVars >>

\* A CANCEL line: take the manager's lock.
CancelCmd(c, tok) ==
    /\ srv # "exited"
    /\ conn[c].pc = "read"
    /\ CommandFromStr(tok) = "Cancel"
    /\ LockFree
    /\ lock' = HeldBy("handler", c)
    /\ conn' = [conn EXCEPT ![c].pc = "cancel",
                            ![c].pending = [ NoPending EXCEPT !.line = Line(tok, 0, "", << >>) ]]
    /\ written' = Nothing
    /\ UNCHANGED << genVars, CLIENTS_COUNTER, alloc, running, srv, clients,
                    subs, stop_flag, cancelled, udpVars, dispVars, inbox, now, clientVars >>

\* Under the lock: remove_client(id_client) and, when it returned a client,
\* client.stop_flag.store(true); then the reply OK|canceled.
CancelBody(c) ==
    /\ srv # "exited"
    /\ conn[c].pc = "cancel"
    /\ clients' = remove_client(clients, conn[c].id)
    /\ stop_flag' = IF conn[c].id \in DOMAIN clients
                    THEN [stop_flag EXCEPT ![clients[conn[c].id]] = TRUE]
                    ELSE stop_flag
    /\ cancelled' = [ k \in DOMAIN cancelled |-> cancelled[k] \/ subs[k].tcp_addr = c ]
    /\ lock' = Free
    /\ written' = Response(c, conn[c].pending.line, ResponseOk("canceled"))
    /\ conn' = [conn EXCEPT ![c].pc = "read", ![c].pending = NoPending]
    /\ UNCHANGED << genVars, CLIENTS_COUNTER, alloc, running, srv, subs, udpVars,
                    dispVars, inbox, now, clientVars >>

\* An empty line (input.is_empty() after trim): ERROR|empty line, continue.
EmptyLine(c) ==
    /\ srv # "exited"
    /\ conn[c].pc = "read"
    /\ written' = Response(c, NoLine, ResponseErr("empty line"))
    /\ conn' = [conn EXCEPT ![c].rejected = TRUE]
    /\ UNCHANGED << genVars, CLIENTS_COUNTER, alloc, running, srv, clients,
                    lock, subs, stop_flag, cancelled, udpVars, dispVars, inbox, now, clientVars >>

\* A line whose first token is no command: ERROR|invalid command, continue.
InvalidCmd(c, line) ==
    /\ srv # "exited"
    /\ conn[c].pc = "read"
    /\ line.cmd # ""
    /\ CommandFromStr(line.cmd) = "Err"
    /\ written' = Response(c, line, ResponseErr("invalid command"))
    /\ conn' = [conn EXCEPT ![c].rejected = TRUE]
    /\ UNCHANGED << genVars, CLIENTS_COUNTER, alloc, running, srv, clients,
                    lock, subs, stop_flag, cancelled, udpVars, dispVars, inbox, now, clientVars >>

\* read_line returns Err: the handler logs and returns.
ReadError(c) ==
    /\ srv # "exited"
    /\ conn[c].pc = "read"
    /\ conn' = [conn EXCEPT ![c].pc = "closed"]
    /\ written' = Nothing
    /\ UNCHANGED << genVars, CLIENTS_COUNTER, alloc, running, srv, clients,
                    lock, subs, stop_flag, cancelled, udpVars, dispVars, inbox, now, clientVars >>

\* read_line returns Ok(0): the handler returns.
Eof(c) ==
    /\ srv # "exited"
    /\ conn[c].pc = "read"
    /\ conn' = [conn EXCEPT ![c].pc = "closed"]
    /\ written' = Nothing
    /\ UNCHANGED << genVars, CLIENTS_COUNTER, alloc, running, srv, clients,
                    lock, subs, stop_flag, cancelled, udpVars, dispVars, inbox, now, clientVars >>

(***************************************************************************)
(* channels.rs gen_tickers_dispatcher and tickers_sender.                  *)
(***************************************************************************)
NoQuote == [ fmt |-> "", ticker |-> "", price |-> 0, seq |-> 0 ]

\* The (id, sender) pairs the dispatcher collects under the lock: the
\* clients whose stop flag is false, each named by its subscription object.
ActiveSenders == { k \in Subs : (\E i \in DOMAIN clients : clients[i] = k) /\ ~stop_flag[k] }

\* A sender is disconnected when every receiver of its channel is dropped;
\* run_server keeps its receiver until it returns.  "dropped" names a
\* channel whose receivers are all dropped.
Disconnected(ch) == srv = "exited" \/ ch = "dropped"

\* The result of tx.send_timeout(message, ..) at a channel.
SendResult(ch) ==
    IF Disconnected(ch) THEN "Disconnected"
    ELSE IF Len(inbox[ch]) < InboxCap THEN "Ok" ELSE "Timeout"

\* A loop that also breaks on a timeout.
tickers_sender_break(senders, k, result) ==
    IF result \in { "Disconnected", "Timeout" } THEN {} ELSE senders \ { k }

\* tickers_sender: the senders still to be served after the send to k gave
\* result: Ok and Timeout go on with the next sender, Disconnected breaks.
tickers_sender(senders, k, result) ==
    IF result = "Disconnected" THEN {} ELSE senders \ { k }

\* Loop top and main_receiver.recv_timeout: stop, a quote, or a closed bus
\* (a timeout only loops).
DispRecv ==
    /\ srv # "exited"
    /\ disp.pc = "recv"
    /\ IF disp_stop THEN disp' = [disp EXCEPT !.pc = "done"] /\ bus' = bus
       ELSE IF bus # << >>
            THEN /\ disp' = [disp EXCEPT !.pc = "lock", !.quote = recv_timeout(bus).item]
                 /\ bus' = recv_timeout(bus).rest
       ELSE /\ ~gen_alive
            /\ disp' = [disp EXCEPT !.pc = "done"]
            /\ bus' = bus
    /\ written' = Nothing
    /\ UNCHANGED << tickers_vec, quote_board, emitted, gen_alive, tcpVars, udpVars,
                    disp_stop, inbox, now, clientVars >>

\* A loop top that does not look at the stop flag.
DispTop_blind ==
    /\ srv # "exited"
    /\ disp.pc = "recv"
    /\ disp' = [disp EXCEPT !.pc = "wait"]
    /\ written' = Nothing
    /\ UNCHANGED << genVars, tcpVars, udpVars, disp_stop, inbox, now, clientVars >>

\* The loop top alone: stop.load(), break when it is set, else go on to
\* recv_timeout.  DispRecv above is this step and the next one taken at once.
DispTop ==
    /\ srv # "exited"
    /\ disp.pc = "recv"
    /\ disp' = [disp EXCEPT !.pc = IF disp_stop THEN "done" ELSE "wait"]
    /\ written' = Nothing
    /\ UNCHANGED << genVars, tcpVars, udpVars, disp_stop, inbox, now, clientVars >>

\* main_receiver.recv_timeout alone: a quote, Timeout (continue) or
\* Disconnected (break).
DispWait ==
    /\ srv # "exited"
    /\ disp.pc = "wait"
    /\ IF bus # << >>
       THEN /\ disp' = [disp EXCEPT !.pc = "lock", !.quote = recv_timeout(bus).item]
            /\ bus' = recv_timeout(bus).rest
       ELSE /\ disp' = [disp EXCEPT !.pc = IF gen_alive THEN "recv" ELSE "done"]
            /\ bus' = bus
    /\ written' = Nothing
    /\ UNCHANGED << tickers_vec, quote_board, emitted, gen_alive, tcpVars, udpVars,
                    disp_stop, inbox, now, clientVars >>

\* The dispatcher's owner stores true into the `stop` flag it passed in.
DispStop ==
    /\ srv # "exited"
    /\ ~disp_stop
    /\ disp_stop' = TRUE
    /\ written' = Nothing
    /\ UNCHANGED << genVars, tcpVars, udpVars, disp, inbox, now, clientVars >>

\* clients.lock()
DispLock ==
    /\ srv # "exited"
    /\ disp.pc = "lock"
    /\ LockFree
    /\ lock' = HeldBy("dispatcher", 0)
    /\ disp' = [disp EXCEPT !.pc = "snap"]
    /\ written' = Nothing
    /\ UNCHANGED << genVars, CLIENTS_COUNTER, alloc, running, srv, conn,
                    clients, subs, stop_flag, cancelled, udpVars, disp_stop, inbox, now, clientVars >>

\* A snapshot whose guard lives on to the end of the loop body.
DispSnapshot_hold ==
    /\ srv # "exited"
    /\ disp.pc = "snap"
    /\ disp' = [disp EXCEPT !.pc = IF ActiveSenders = {} THEN "recv" ELSE "send",
                            !.senders = ActiveSenders]
    /\ written' = Nothing
    /\ UNCHANGED << genVars, tcpVars, udpVars, disp_stop, inbox, now, clientVars >>

\* Collect the senders of the active clients, then drop the guard.
DispSnapshot ==
    /\ srv # "exited"
    /\ disp.pc = "snap"
    /\ disp' = [disp EXCEPT !.pc = IF ActiveSenders = {} THEN "recv" ELSE "send",
                            !.senders = ActiveSenders]
    /\ lock' = Free
    /\ written' = Nothing
    /\ UNCHANGED << genVars, CLIENTS_COUNTER, alloc, running, srv, conn,
                    clients, subs, stop_flag, cancelled, udpVars, disp_stop, inbox, now, clientVars >>

\* tickers_sender: send_timeout to the next sender of the snapshot (a HashMap
\* gives them in any order): Ok, Timeout on a full channel (the quote is
\* dropped for that client), Disconnected (break).
DispSend(k) ==
    /\ srv # "exited"
    /\ disp.pc = "send"
    /\ k \in disp.senders
    /\ LET ch == subs[k].recv
           left == tickers_sender(disp.senders, k, SendResult(ch))
       IN  /\ inbox' = IF SendResult(ch) = "Disconnected" THEN inbox
                       ELSE [inbox EXCEPT ![ch] = send_timeout(@, disp.quote, InboxCap)]
           /\ disp' = [disp EXCEPT !.pc = IF left = {} THEN "recv" ELSE "send",
                                   !.senders = left]
    /\ written' = Nothing
    /\ UNCHANGED << genVars, tcpVars, udpVars, disp_stop, now, clientVars >>

(***************************************************************************)
(* udp.rs spawn_stream: the transmitter thread of one subscription.        *)
(***************************************************************************)
\* The datagrams a client sends to a transmitter's socket.
Datagrams == { "Ping", " PING\n", "pong", "" }

\* A comparison with no lower-casing.
IsPing_exact(msg) == msg = "ping"

\* String::from_utf8_lossy(..).to_ascii_lowercase().trim() == "ping", on
\* the datagrams of the model: lower-case every letter, then cut the white
\* space at both ends.
IsPing(msg) ==
    LET to_ascii_lowercase(s) ==
            CASE s = "Ping" -> "ping"
              [] s = " PING\n" -> " ping\n"
              [] OTHER -> s
        trim(s) ==
            CASE s = " ping\n" -> "ping"
              [] OTHER -> s
    IN  trim(to_ascii_lowercase(msg)) = "ping"

\* A stop flag that is never seen.
StopObserved_never(k) == FALSE

\* A transmitter that also stops when its TCP connection is closed.
StopObserved_closed(k) ==
    \/ stop_flag[k]
    \/ subs[k].tcp_addr \in Conns /\ conn[subs[k].tcp_addr].pc = "closed"

\* client.stop_flag.load()
StopObserved(k) == stop_flag[k]

\* The timeout compared in milliseconds.
PingExpired_millis(k) == now - tx[k].last_ping > UDP_PING_TIMEOUT_SECS * 1000

\* last_ping.elapsed() > Duration::from_secs(UDP_PING_TIMEOUT_SECS)
PingExpired(k) == now - tx[k].last_ping > UDP_PING_TIMEOUT_SECS

\* A parser that accepts every payload.
Deserialize_lenient(q) == [ ok |-> TRUE, ticker |-> q.ticker ]

\* serde_json::from_str::<StockQuote>(&quote)
Deserialize(q) == [ ok |-> q.fmt = "json", ticker |-> q.ticker ]

\* A filter test with the emptiness check inverted.
FilterPass_inverted(tickers, ticker) == tickers # {} \/ ticker \in tickers

\* The quote passes the filter: the filter is empty or holds the ticker.
FilterPass(tickers, ticker) == tickers = {} \/ ticker \in tickers

\* Thread start (resolve the address, bind the socket, last_ping = now)
\* followed by the first loop-top check.
TxStart(k) ==
    /\ srv # "exited"
    /\ tx[k].pc = "start"
    /\ tx' = IF StopObserved(k)
             THEN [tx EXCEPT ![k].pc = "done", ![k].why = "stop", ![k].last_ping = now]
             ELSE [tx EXCEPT ![k].pc = "ping", ![k].last_ping = now]
    /\ written' = Nothing
    /\ UNCHANGED << genVars, tcpVars, sent, sock, dispVars, inbox, now, clientVars >>

\* Loop top: break on the stop flag, break on the ping timeout.
TxTop(k) ==
    /\ srv # "exited"
    /\ tx[k].pc = "top"
    /\ tx' = IF StopObserved(k) THEN [tx EXCEPT ![k].pc = "done", ![k].why = "stop"]
             ELSE IF PingExpired(k) THEN [tx EXCEPT ![k].pc = "done", ![k].why = "timeout"]
             ELSE [tx EXCEPT ![k].pc = "ping"]
    /\ written' = Nothing
    /\ UNCHANGED << genVars, tcpVars, sent, sock, dispVars, inbox, now, clientVars >>

\* socket.recv_from: a waiting datagram is read and a ping renews last_ping;
\* with no datagram the read times out.
TxPing(k) ==
    /\ srv # "exited"
    /\ tx[k].pc = "ping"
    /\ IF sock[k] # << >>
       THEN /\ sock' = [sock EXCEPT ![k] = Tail(@)]
            /\ tx' = [tx EXCEPT ![k].pc = "recv",
                                ![k].last_ping = IF IsPing(Head(sock[k])) THEN now ELSE @]
       ELSE /\ sock' = sock
            /\ tx' = [tx EXCEPT ![k].pc = "recv"]
    /\ written' = Nothing
    /\ UNCHANGED << genVars, tcpVars, sent, dispVars, inbox, now, clientVars >>

\* client.recv.recv_timeout: on a quote, return when it does not parse or
\* does not pass the filter, else send it to udp_url; on a timeout loop.
TxRecv(k) ==
    /\ srv # "exited"
    /\ tx[k].pc = "recv"
    /\ LET ch == subs[k].recv IN
       IF inbox[ch] = << >>
       THEN /\ tx' = [tx EXCEPT ![k].pc = "top"]
            /\ UNCHANGED << inbox, sent >>
       ELSE LET quote == recv_timeout(inbox[ch]).item
                stock_quote == Deserialize(quote)
            IN  /\ inbox' = [inbox EXCEPT ![ch] = recv_timeout(@).rest]
                /\ IF ~stock_quote.ok
                   THEN /\ tx' = [tx EXCEPT ![k].pc = "done", ![k].why = "parse"]
                        /\ sent' = sent
                   ELSE IF ~FilterPass(subs[k].tickers, stock_quote.ticker)
                   THEN /\ tx' = [tx EXCEPT ![k].pc = "done", ![k].why = "filter"]
                        /\ sent' = sent
                   ELSE /\ sent' = [sent EXCEPT ![k] = Append(@, quote)]
                        /\ tx' = [tx EXCEPT ![k].pc = "top",
                                            ![k].late = IF stop_flag[k] THEN @ + 1 ELSE @]
    /\ written' = Nothing
    /\ UNCHANGED << genVars, tcpVars, sock, dispVars, now, clientVars >>

\* quote_client udp.rs spawn_ping: once the client has learned the server's
\* address from a first datagram it sends datagrams to the transmitter.
ClientPing(k, msg) ==
    /\ srv # "exited"
    /\ tx[k].pc # "done"
    /\ Len(sent[k]) > 0
    /\ Len(sock[k]) < SockCap
    /\ sock' = [sock EXCEPT ![k] = Append(@, msg)]
    /\ written' = Nothing
    /\ UNCHANGED << genVars, tcpVars, tx, sent, dispVars, inbox, now, clientVars >>

\* A second passes.
Tick ==
    /\ srv # "exited"
    /\ now < MaxTime
    /\ now' = now + 1
    /\ written' = Nothing
    /\ UNCHANGED << genVars, tcpVars, udpVars, dispVars, inbox, clientVars >>

(***************************************************************************)
(* commons models.rs: the quote record and its two text forms.             *)
(***************************************************************************)
\* enum Transaction: the variants.
Transaction == { "Transaction::Sell", "Transaction::Buy" }

\* struct StockQuote; price is in tenths of the price unit.
StockQuote(ticker, price, volume, timestamp, transaction) ==
    [ ticker |-> ticker, price |-> price, volume |-> volume,
      timestamp |-> timestamp, transaction |-> transaction ]

NoStockQuote == StockQuote("", 0, 0, 0, "")

\* The fields of StockQuote in declaration order.
FieldNames == << "ticker", "price", "volume", "timestamp", "transaction" >>

\* A serializer that writes the #[str] literal of the variant.
TransactionSerialize_str(t) == IF t = "Transaction::Sell" THEN "sell" ELSE "buy"

\* #[derive(Serialize)] on a unit variant writes the variant's identifier.
TransactionSerialize(t) == IF t = "Transaction::Sell" THEN "Sell" ELSE "Buy"

\* #[derive(Deserialize)] on the enum: the identifier, case-sensitive.
TransactionDeserialize(s) ==
    IF s = "Sell" THEN [ ok |-> TRUE, variant |-> "Transaction::Sell" ]
    ELSE IF s = "Buy" THEN [ ok |-> TRUE, variant |-> "Transaction::Buy" ]
    ELSE [ ok |-> FALSE, variant |-> "" ]

\* QuoteEnumDisplay: Display writes the #[str] literal of the variant.
TransactionDisplay(t) == IF t = "Transaction::Sell" THEN "sell" ELSE "buy"

\* The tokens of a text: a quoted string, a number with its digits before
\* and (when it has a decimal point) after the point, a bare word.
TokString(s) == [ type |-> "string", str |-> s, whole |-> 0, point |-> FALSE, frac |-> 0 ]
TokInt(n) == [ type |-> "number", str |-> "", whole |-> n, point |-> FALSE, frac |-> 0 ]
TokFloat(whole, frac) ==
    [ type |-> "number", str |-> "", whole |-> whole, point |-> TRUE, frac |-> frac ]
TokWord(s) == [ type |-> "word", str |-> s, whole |-> 0, point |-> FALSE, frac |-> 0 ]

\* serde_json writes an f64 with a decimal point, also when it is whole
\* (500.0); Display for f64 writes a whole value with no point (500).
JsonF64(price) == TokFloat(price \div 10, price % 10)
DisplayF64(price) ==
    IF price % 10 = 0 THEN TokInt(price \div 10) ELSE TokFloat(price \div 10, price % 10)

NoText == [ syntax |-> "none", members |-> << >>, parts |-> << >> ]

\* serde_json::to_string(&StockQuote): one JSON object, a member per field
\* in declaration order.
serde_json_to_string(q) ==
    [ syntax |-> "json",
      members |-> << << "ticker", TokString(q.ticker) >>,
                     << "price", JsonF64(q.price) >>,
                     << "volume", TokInt(q.volume) >>,
                     << "timestamp", TokInt(q.timestamp) >>,
                     << "transaction", TokString(TransactionSerialize(q.transaction)) >> >>,
      parts |-> << >> ]

\* QuoteDisplay: Display writes the fields separated by '|' and a newline.
to_string(q) ==
    [ syntax |-> "line",
      members |-> << >>,
      parts |-> << TokWord(q.ticker), DisplayF64(q.price), TokInt(q.volume),
                   TokInt(q.timestamp), TokWord(TransactionDisplay(q.transaction)) >> ]

\* The members of a JSON object with the given key.
Members(text, key) == { i \in DOMAIN text.members : text.members[i][1] = key }
Field(text, key) == text.members[CHOOSE i \in Members(text, key) : TRUE][2]

ParseErr == [ ok |-> FALSE, quote |-> NoStockQuote ]

\* serde_json::from_str::<StockQuote>: the text is a JSON object, every
\* field is there once with a value of its type (an integer is accepted for
\* the f64, a number with a point is not accepted for the integers), and
\* members with other keys are skipped.
serde_json_from_str(text) ==
    IF text.syntax # "json" THEN ParseErr
    ELSE IF \E i \in DOMAIN FieldNames : Cardinality(Members(text, FieldNames[i])) # 1
    THEN ParseErr
    ELSE LET ticker == Field(text, "ticker")
             price == Field(text, "price")
             volume == Field(text, "volume")
             timestamp == Field(text, "timestamp")
             transaction == Field(text, "transaction")
         IN  IF \/ ticker.type # "string"
                \/ price.type # "number"
                \/ volume.type # "number" \/ volume.point
                \/ timestamp.type # "number" \/ timestamp.point
                \/ transaction.type # "string"
                \/ ~TransactionDeserialize(transaction.str).ok
             THEN ParseErr
             ELSE [ ok |-> TRUE,
                    quote |-> StockQuote(ticker.str,
                                         price.whole * 10 + price.frac,
                                         volume.whole, timestamp.whole,
                                         TransactionDeserialize(transaction.str).variant) ]

\* No quote is on its way.
NoWire ==
    [ pc |-> "idle", quote |-> NoStockQuote, payload |-> NoText,
      datagram |-> NoText, decoded |-> NoStockQuote ]

\* The two start_generator functions of the server crate.
Generators == { "main.rs", "channels.rs" }

\* start_generator, from next_gen's Ok(quote) to the payload handed to
\* send_timeout: main.rs sends quote.to_string(), channels.rs sends
\* serde_json::to_string(&quote).
WireSerialize(generator) ==
    /\ wire.pc = "quote"
    /\ wire' = [wire EXCEPT !.pc = "bus",
                            !.payload = IF generator = "main.rs"
                                        THEN to_string(wire.quote)
                                        ELSE serde_json_to_string(wire.quote)]
    /\ written' = Nothing
    /\ UNCHANGED << genVars, tcpVars, udpVars, dispVars, inbox, now, client, cli >>

\* spawn_stream on a payload from its channel, for a subscription to ALL:
\* return when the payload does not parse, else send its bytes as one
\* datagram.
WireForward ==
    /\ wire.pc = "bus"
    /\ wire' = IF serde_json_from_str(wire.payload).ok
               THEN [wire EXCEPT !.pc = "sent", !.datagram = wire.payload]
               ELSE [wire EXCEPT !.pc = "returned"]
    /\ written' = Nothing
    /\ UNCHANGED << genVars, tcpVars, udpVars, dispVars, inbox, now, client, cli >>

\* recv_loop on a datagram: the decoded quote is logged, a datagram that
\* does not decode is logged as an error.
WireDecode ==
    /\ wire.pc = "sent"
    /\ wire' = IF serde_json_from_str(wire.datagram).ok
               THEN [wire EXCEPT !.pc = "decoded",
                                 !.decoded = serde_json_from_str(wire.datagram).quote]
               ELSE [wire EXCEPT !.pc = "undecoded"]
    /\ written' = Nothing
    /\ UNCHANGED << genVars, tcpVars, udpVars, dispVars, inbox, now, client, cli >>

(***************************************************************************)
(* quote_client udp.rs: UdpClient, its ping thread and its receive loop.   *)
(* A socket address is a positive number (a transmitter's socket has its   *)
(* subscription's number); 0 stands for None.                              *)
(***************************************************************************)
\* UdpClient::bind: server_addr is None; nothing received, no ping sent.
\* main has not connected: its position is "off", and so is the position of
\* the server's handler of its connection; tcp holds what the server has
\* written and main has not read, wrote and read are the histories of the
\* lines written by the server and read by main.
NoClient ==
    [ pc |-> "idle", server_addr |-> 0, last |-> 0, got |-> << >>,
      pings |-> << >>, stop |-> FALSE,
      main |-> "off", peer |-> "off", tcp |-> << >>, closed |-> FALSE,
      wrote |-> << >>, read |-> << >> ]

\* A setter that stores every source.
set_server_addr_last(guard, addr) == addr

\* set_server_addr: if guard.is_none() { *guard = Some(addr) }
set_server_addr(guard, addr) == IF guard = 0 THEN addr ELSE guard

\* main: UdpClient::bind_url and spawn_ping (last = Instant::now()).
ClientBind ==
    /\ client.pc = "idle"
    /\ client' = [client EXCEPT !.pc = "run", !.last = now]
    /\ written' = Nothing
    /\ UNCHANGED << genVars, tcpVars, udpVars, dispVars, inbox, now, wire, cli >>

\* BufRead::read_line on the connection: the first line when it is complete,
\* or what is left when the server has closed (nothing left: 0 bytes);
\* otherwise the call does not return yet.
read_line(tcp, closed) ==
    IF tcp # << >> /\ (Head(tcp).nl \/ closed)
    THEN [ returns |-> TRUE, bytes |-> 1, line |-> Head(tcp).text, rest |-> Tail(tcp) ]
    ELSE [ returns |-> tcp = << >> /\ closed, bytes |-> 0, line |-> << >>, rest |-> tcp ]

\* tcp.rs handle_client: WELCOME_SERVER, WELCOME_INFO and WELCOME_TERMINATOR,
\* one write each; every line of them ends with a line feed.
PeerWrite ==
    /\ client.peer \in { "banner", "info", "terminator" }
    /\ ~client.closed
    /\ LET lines == CASE client.peer = "banner" -> << << "Quote Server!" >>, << >> >>
                      [] client.peer = "info" ->
                            << << "Commands:" >>, << "STREAM <URL>:<PORT> ALL" >>,
                               << "CANCEL <URL>:<PORT>" >>, << >> >>
                      [] client.peer = "terminator" -> << << "READY" >> >>
           next == CASE client.peer = "banner" -> "info"
                     [] client.peer = "info" -> "terminator"
                     [] client.peer = "terminator" -> "read"
       IN  client' = [client EXCEPT
                        !.peer = next,
                        !.wrote = @ \o lines,
                        !.tcp = @ \o [ i \in DOMAIN lines |-> [ text |-> lines[i], nl |-> TRUE ] ]]
    /\ written' = Nothing
    /\ UNCHANGED << genVars, tcpVars, udpVars, dispVars, inbox, now, wire, cli >>

\* handle_client has read the command line and ServerResponse::send writes
\* the reply, which has no line feed.
PeerAnswer(text) ==
    /\ client.peer = "read"
    /\ client.main = "reply"
    /\ ~client.closed
    /\ client' = [client EXCEPT !.peer = "answered",
                                !.wrote = Append(@, text),
                                !.tcp = Append(@, [ text |-> text, nl |-> FALSE ])]
    /\ written' = Nothing
    /\ UNCHANGED << genVars, tcpVars, udpVars, dispVars, inbox, now, wire, cli >>

\* The server's end of the connection is closed: the handler has returned
\* or the server process has ended.
PeerClose ==
    /\ client.peer # "off"
    /\ ~client.closed
    /\ client' = [client EXCEPT !.closed = TRUE]
    /\ written' = Nothing
    /\ UNCHANGED << genVars, tcpVars, udpVars, dispVars, inbox, now, wire, cli >>

\* main, the loop that skips the greeting: read_line; leave the loop on 0
\* bytes and on a line that is READY after trim_end and to_uppercase.
MainSkip ==
    /\ client.main = "skip"
    /\ LET r == read_line(client.tcp, client.closed) IN
       /\ r.returns
       /\ client' = [client EXCEPT
                        !.tcp = r.rest,
                        !.read = IF r.bytes = 0 THEN @ ELSE Append(@, r.line),
                        !.main = IF r.bytes = 0 \/ r.line \in { << "READY" >>, << "ready" >> }
                                 THEN "send" ELSE "skip"]
    /\ written' = Nothing
    /\ UNCHANGED << genVars, tcpVars, udpVars, dispVars, inbox, now, wire, cli >>

\* main: write_all(command), write_all("\n"), flush; an error of a write
\* (possible once the server has closed) ends main.
MainSend(failed) ==
    /\ client.main = "send"
    /\ failed => client.closed
    /\ client' = [client EXCEPT !.main = IF failed THEN "exit" ELSE "reply"]
    /\ written' = Nothing
    /\ UNCHANGED << genVars, tcpVars, udpVars, dispVars, inbox, now, wire, cli >>

\* main: read_line for the reply; return on 0 bytes and on a reply that
\* does not start with OK, else go on to the UDP socket.
MainReply ==
    /\ client.main = "reply"
    /\ LET r == read_line(client.tcp, client.closed) IN
       /\ r.returns
       /\ client' = [client EXCEPT
                        !.tcp = r.rest,
                        !.read = IF r.bytes = 0 THEN @ ELSE Append(@, r.line),
                        !.main = IF r.bytes > 0 /\ r.line # << >> /\ Head(r.line) = "OK"
                                 THEN "udp" ELSE "exit"]
    /\ written' = Nothing
    /\ UNCHANGED << genVars, tcpVars, udpVars, dispVars, inbox, now, wire, cli >>

\* recv_loop: recv_from returned a datagram from addr.
RecvLoop(addr) ==
    /\ client.pc = "run"
    /\ ~client.stop
    /\ Len(client.got) < MaxGot
    /\ client' = [client EXCEPT !.server_addr = set_server_addr(@, addr),
                                !.got = Append(@, addr)]
    /\ written' = Nothing
    /\ UNCHANGED << genVars, tcpVars, udpVars, dispVars, inbox, now, wire, cli >>

\* The ping thread when last.elapsed() >= PING_INTERVAL_SECS: send "Ping"
\* to the stored address, if there is one, and set last to the present.
\* The datagram reaches the socket of the transmitter with that address
\* unless the socket's queue is full.
PingThread ==
    /\ client.pc = "run"
    /\ ~client.stop
    /\ now - client.last >= PING_INTERVAL_SECS
    /\ LET target == client.server_addr IN
       /\ client' = [client EXCEPT !.last = now,
                                   !.pings = IF target # 0 THEN Append(@, target) ELSE @]
       /\ sock' = IF target \in DOMAIN sock /\ Len(sock[target]) < SockCap
                  THEN [sock EXCEPT ![target] = Append(@, "Ping")]
                  ELSE sock
    /\ written' = Nothing
    /\ UNCHANGED << genVars, tcpVars, tx, sent, dispVars, inbox, now, wire, cli >>

\* Ctrl-C on the client: both loops see the stop flag and break.
ClientCtrlC ==
    /\ client.pc = "run"
    /\ ~client.stop
    /\ client' = [client EXCEPT !.stop = TRUE]
    /\ written' = Nothing
    /\ UNCHANGED << genVars, tcpVars, udpVars, dispVars, inbox, now, wire, cli >>

(***************************************************************************)
(* cli.rs of the server and of the client: the port validators and the     *)
(* client's command.  A text is a sequence of pieces: a character of a     *)
(* port argument, or a word, a blank or a comma of a line.                 *)
(***************************************************************************)
\* config.rs TCP_PORTS_ALLOWED, ALLOW_TCP_PORTS, ALLOW_UDP_PORTS: start, end.
TCP_PORTS_ALLOWED == << 1024, 49151 >>
ALLOW_TCP_PORTS == << 1024, 49151 >>
ALLOW_UDP_PORTS == << 1024, 49151 >>

DigitChar == << "0", "1", "2", "3", "4", "5", "6", "7", "8", "9" >>
IsDigit(ch) == \E d \in 0..9 : DigitChar[d + 1] = ch
DigitValue(ch) == CHOOSE d \in 0..9 : DigitChar[d + 1] = ch

\* The decimal digits of a natural number (u16 and Url Display).
RECURSIVE Digits(_)
Digits(n) ==
    IF n < 10 THEN << DigitChar[n + 1] >>
    ELSE Digits(n \div 10) \o << DigitChar[(n % 10) + 1] >>

PortErr == [ ok |-> FALSE, port |-> 0 ]

\* The digit loop of str::parse for an unsigned type with the largest
\* value max: a piece that is not a digit, or a value above max, is an error.
RECURSIVE Accumulate(_, _, _)
Accumulate(body, acc, max) ==
    IF body = << >> THEN [ ok |-> TRUE, port |-> acc ]
    ELSE IF ~IsDigit(Head(body)) THEN PortErr
    ELSE LET next == acc * 10 + DigitValue(Head(body)) IN
         IF next > max THEN PortErr ELSE Accumulate(Tail(body), next, max)

\* str::parse for an unsigned type: an empty text and a lone sign are
\* errors, a leading '+' is skipped, a leading '-' is not a digit.
parse_unsigned(s, max) ==
    IF s = << >> THEN PortErr
    ELSE IF Head(s) = "+" THEN (IF Tail(s) = << >> THEN PortErr ELSE Accumulate(Tail(s), 0, max))
    ELSE Accumulate(s, 0, max)

\* A range test that leaves out the end of the range.
Contains_exclusive(range, port) == range[1] <= port /\ port < range[2]

\* RangeInclusive::contains
Contains(range, port) == range[1] <= port /\ port <= range[2]

\* quote_server cli.rs port_in_range: s.parse::<usize>(), the range test,
\* port as u16.  usize::MAX is above every number a text of PortTexts
\* denotes, so the limit of the digit loop is one the texts do not reach.
server_port_in_range(s) ==
    LET parsed == parse_unsigned(s, 2147483647 \div 16) IN
    IF ~parsed.ok THEN PortErr
    ELSE IF Contains(TCP_PORTS_ALLOWED, parsed.port)
    THEN [ ok |-> TRUE, port |-> parsed.port % (U16Max + 1) ]
    ELSE PortErr

\* quote_client cli.rs port_in_range: s.parse::<u16>() and the range test.
port_in_range(s, range) ==
    LET parsed == parse_unsigned(s, U16Max) IN
    IF ~parsed.ok THEN PortErr
    ELSE IF Contains(range, parsed.port) THEN parsed
    ELSE PortErr

validate_tcp_port(s) == port_in_range(s, ALLOW_TCP_PORTS)
validate_udp_port(s) == port_in_range(s, ALLOW_UDP_PORTS)

\* str::trim on a line: the blanks at both ends are removed.
RECURSIVE TrimStart(_)
TrimStart(line) ==
    IF line # << >> /\ Head(line) = " " THEN TrimStart(Tail(line)) ELSE line
RECURSIVE TrimEnd(_)
TrimEnd(line) ==
    IF line # << >> /\ line[Len(line)] = " " THEN TrimEnd(SubSeq(line, 1, Len(line) - 1))
    ELSE line
Trim(line) == TrimEnd(TrimStart(line))

\* commons get_ticker_data on an open file: the trimmed lines that are not
\* empty, in order.
RECURSIVE TrimmedLines(_)
TrimmedLines(lines) ==
    IF lines = << >> THEN << >>
    ELSE (IF Trim(Head(lines)) = << >> THEN << >> ELSE << Trim(Head(lines)) >>)
         \o TrimmedLines(Tail(lines))

\* ClientSet::get_tickers: get_ticker_data(path).unwrap_or_default(); a
\* file that cannot be opened and a file with no ticker give the empty list.
get_tickers(file) == IF file.exists THEN TrimmedLines(file.lines) ELSE << >>

\* A join that puts the separator after every item.
Join_trailing(items, sep) ==
    IF items = << >> THEN << >>
    ELSE LET RECURSIVE J(_)
             J(i) == IF i > Len(items) THEN << >> ELSE items[i] \o << sep >> \o J(i + 1)
         IN  J(1)

\* [String]::join
Join(items, sep) ==
    IF items = << >> THEN << >>
    ELSE LET RECURSIVE J(_)
             J(i) == IF i = Len(items) THEN items[i] ELSE items[i] \o << sep >> \o J(i + 1)
         IN  J(1)

\* ClientSet::make_udp_url and Url's Display.
make_udp_url(port_udp) == << "udp://", UDP_CALLBACK, ":" >> \o Digits(port_udp)

NoFile == [ given |-> FALSE, exists |-> FALSE, lines |-> << >> ]

\* ClientSet::tickers_and_command
tickers_and_command(command, file, udp_url) ==
    IF command = "Stream"
    THEN LET tickers == IF file.given THEN get_tickers(file) ELSE << >>
             args == IF tickers = << >> THEN << "ALL" >> ELSE Join(tickers, ",")
         IN  [ tickers |-> tickers,
               command |-> << "STREAM", " " >> \o udp_url \o << " " >> \o args ]
    ELSE [ tickers |-> << >>, command |-> << "CANCEL", " " >> \o udp_url ]

\* No command line has been parsed.
NoCli ==
    [ pc |-> "idle", number |-> FALSE, n |-> 0, text |-> << >>, result |-> PortErr,
      sub |-> "", file |-> NoFile, list |-> << >>, udp |-> 0,
      tickers |-> << >>, command |-> << >> ]

\* clap calls the value parser of the server's --port on the argument.
ServerPort ==
    /\ cli.pc = "port"
    /\ cli' = [cli EXCEPT !.pc = "server", !.result = server_port_in_range(cli.text)]
    /\ written' = Nothing
    /\ UNCHANGED << genVars, tcpVars, udpVars, dispVars, inbox, now, wire, client >>

\* clap calls the value parser of the client's --port on the argument.
ClientTcpPort ==
    /\ cli.pc = "port"
    /\ cli' = [cli EXCEPT !.pc = "client tcp", !.result = validate_tcp_port(cli.text)]
    /\ written' = Nothing
    /\ UNCHANGED << genVars, tcpVars, udpVars, dispVars, inbox, now, wire, client >>

\* clap calls the value parser of the client's --udp on the argument.
ClientUdpPort ==
    /\ cli.pc = "port"
    /\ cli' = [cli EXCEPT !.pc = "client udp", !.result = validate_udp_port(cli.text)]
    /\ written' = Nothing
    /\ UNCHANGED << genVars, tcpVars, udpVars, dispVars, inbox, now, wire, client >>

\* ClientSet::new: make_udp_url, then tickers_and_command.
ClientSetNew ==
    /\ cli.pc = "command"
    /\ LET r == tickers_and_command(cli.sub, cli.file, make_udp_url(cli.udp)) IN
       cli' = [cli EXCEPT !.pc = "built", !.tickers = r.tickers, !.command = r.command]
    /\ written' = Nothing
    /\ UNCHANGED << genVars, tcpVars, udpVars, dispVars, inbox, now, wire, client >>

(***************************************************************************)
(* Specifications.                                                         *)
(***************************************************************************)
InitServer ==
    /\ CLIENTS_COUNTER = CLIENTS_COUNTER_INIT
    /\ alloc = << >>
    /\ running = TRUE
    /\ srv = "listen"
    /\ conn = [ c \in Conns |-> [ pc |-> "none", id |-> 0, pending |-> NoPending,
                                   rejected |-> FALSE ] ]
    /\ written = Nothing
    /\ clients = << >>
    /\ lock = Free
    /\ subs = << >>
    /\ stop_flag = << >>
    /\ cancelled = << >>
    /\ tx = << >>
    /\ sent = << >>
    /\ sock = << >>
    /\ inbox = [ ch \in { "receiver" } |-> << >> ]
    /\ disp = [ pc |-> "recv", quote |-> NoQuote, senders |-> {} ]
    /\ disp_stop = FALSE
    /\ now = 0

\* The client side before anything has happened on it.
InitClient ==
    /\ wire = NoWire
    /\ client = NoClient
    /\ cli = NoCli

\* The server with the list ServerTickerFile loaded.
Init ==
    /\ tickers_vec = ServerTickerFile
    /\ quote_board \in { b \in init_quote_board(tickers_vec) :
                            b["AAPL"] = ExpensiveMin /\ b["MSFT"] = MiddleMin }
    /\ emitted = << >>
    /\ gen_alive = TRUE
    /\ bus = << >>
    /\ InitServer
    /\ InitClient

Listener(C) == \E c \in C : ServerAccept(c)

Shutdown == CtrlC \/ ServerWouldBlock \/ ServerSweep \/ ProcessExit

Handlers(C) ==
    \/ \E c \in C : Greet(c)
    \/ \E c \in C, line \in StreamLines : StreamCmd(c, line, MaxSubs)
    \/ \E c \in C : StreamBody(c)
    \/ \E c \in C : CancelCmd(c, "CANCEL")
    \/ \E c \in C : CancelBody(c)
    \/ \E c \in C : Eof(c)
    \/ \E c \in C : ReadError(c)

\* The lines a handler answers with an error, and further STREAM lines.
BadInput(C) ==
    \/ \E c \in C : EmptyLine(c)
    \/ \E c \in C, line \in JunkLines : InvalidCmd(c, line)
    \/ \E c \in C, line \in BadStreamLines \cup MoreStreamLines : StreamCmd(c, line, MaxSubs)

Dispatcher == DispRecv \/ DispLock \/ DispSnapshot \/ (\E k \in Subs : DispSend(k))

Transmitters ==
    \/ \E k \in Subs : TxStart(k)
    \/ \E k \in Subs : TxTop(k)
    \/ \E k \in Subs : TxPing(k)
    \/ \E k \in Subs : TxRecv(k)

\* Spec: the whole pipeline (generator, dispatcher, registry, transmitters)
\* with DataConn connections sending STREAM and CANCEL; the random price
\* change is not drawn, no client pings, the clock stands, no Ctrl-C.
Next ==
    \/ GeneratorTick({ FALSE })
    \/ Listener(1..DataConn)
    \/ Handlers(1..DataConn)
    \/ Dispatcher
    \/ Transmitters

Spec == Init /\ [][Next]_vars

\* SpecStop: the whole pipeline together with Ctrl-C and the shutdown sweep,
\* so that a stop flag is set by CANCEL or by run_server's last loop.
NextStop == Next \/ Shutdown

SpecStop == Init /\ [][NextStop]_vars

\* SpecCtl: the command front-end with MaxConn connections and the shutdown
\* sequence; no quote is generated and the transmitters are not scheduled.
NextCtl ==
    \/ Listener(Conns)
    \/ Handlers(Conns)
    \/ Shutdown

SpecCtl == Init /\ [][NextCtl]_vars

\* SpecCmd: the command loop of DataConn connections fed well-formed and
\* malformed lines; no quote is generated, the transmitters are not scheduled.
NextCmd ==
    \/ Listener(1..DataConn)
    \/ Handlers(1..DataConn)
    \/ BadInput(1..DataConn)

SpecCmd == Init /\ [][NextCmd]_vars

\* SpecFan: MaxConn connections that each send STREAM .. ALL, with the
\* generator, the dispatcher and the transmitters.
AllLine == Line("STREAM", 2, "udp://127.0.0.1:34254", << "ALL" >>)

NextFan ==
    \/ GeneratorTick({ FALSE })
    \/ Listener(Conns)
    \/ (\E c \in Conns : Greet(c))
    \/ (\E c \in Conns : StreamCmd(c, AllLine, MaxSubs))
    \/ (\E c \in Conns : StreamBody(c))
    \/ Dispatcher
    \/ Transmitters

SpecFan == Init /\ [][NextFan]_vars

\* SpecSend: tickers_sender alone, called with a message and a list of
\* MinSenders to MaxSenders senders; each sender's channel is the shared
\* one, a private one or one whose receivers are dropped, and the two open
\* channels hold zero to InboxCap earlier quotes.  The receiving threads
\* are not scheduled.
SendChannels == { "receiver", "private", "dropped" }
EarlierQuote == new_quote("MSFT", MiddleMin, 0)
Message == new_quote("AAPL", ExpensiveMin, 1)
Fill(n) == [ i \in 1..n |-> EarlierQuote ]

InitSend ==
    /\ tickers_vec = ServerTickerFile
    /\ quote_board \in { b \in init_quote_board(tickers_vec) :
                            b["AAPL"] = ExpensiveMin /\ b["MSFT"] = MiddleMin }
    /\ emitted = << Message >>
    /\ gen_alive = TRUE
    /\ bus = << >>
    /\ \E n \in MinSenders..MaxSenders :
         /\ \E chans \in [ 1..n -> SendChannels ] :
              subs = [ k \in 1..n |-> [ unique_id |-> CLIENTS_COUNTER_INIT + k - 1,
                                        tcp_addr |-> 0, udp_url |-> "34254",
                                        tickers |-> Range(tickers_vec),
                                        recv |-> chans[k] ] ]
         /\ stop_flag = [ k \in 1..n |-> FALSE ]
         /\ cancelled = [ k \in 1..n |-> FALSE ]
         /\ tx = [ k \in 1..n |-> [ pc |-> "start", last_ping |-> 0, why |-> "", late |-> 0 ] ]
         /\ sent = [ k \in 1..n |-> << >> ]
         /\ sock = [ k \in 1..n |-> << >> ]
         /\ disp = [ pc |-> "send", quote |-> Message, senders |-> 1..n ]
         /\ CLIENTS_COUNTER = CLIENTS_COUNTER_INIT + n
         /\ alloc = [ k \in 1..n |-> CLIENTS_COUNTER_INIT + k - 1 ]
    /\ \E a, b \in 0..InboxCap :
         inbox = [ ch \in SendChannels |->
                     IF ch = "receiver" THEN Fill(a) ELSE IF ch = "private" THEN Fill(b) ELSE << >> ]
    /\ running = TRUE
    /\ srv = "listen"
    /\ conn = [ c \in Conns |-> [ pc |-> "none", id |-> 0, pending |-> NoPending,
                                   rejected |-> FALSE ] ]
    /\ written = Nothing
    /\ clients = << >>
    /\ lock = Free
    /\ disp_stop = FALSE
    /\ now = 0
    /\ InitClient

NextSend == \E k \in Subs : DispSend(k)

SpecSend == InitSend /\ [][NextSend]_vars

\* SpecGen: the generator alone, for every loaded list of TickerFiles and
\* every board init_quote_board can build, with the price change drawn.
InitGen ==
    /\ tickers_vec \in TickerFiles
    /\ quote_board \in init_quote_board(tickers_vec)
    /\ emitted = << >>
    /\ gen_alive = TRUE
    /\ bus = << >>
    /\ InitServer
    /\ InitClient

NextGen == GeneratorTick(BOOLEAN)

SpecGen == InitGen /\ [][NextGen]_vars

\* SpecBus: the generator and the bus it feeds, with a dispatcher that has
\* no subscriber and can be stopped.
NextBus ==
    \/ GeneratorTick(BOOLEAN)
    \/ DispRecv
    \/ DispLock
    \/ DispSnapshot
    \/ DispStop

SpecBus == Init /\ [][NextBus]_vars

\* QuoteGenerator::new fails and start_generator panics: the sender of the
\* bus is dropped before a quote is sent.
GeneratorPanic ==
    /\ gen_alive
    /\ emitted = << >>
    /\ gen_alive' = FALSE
    /\ written' = Nothing
    /\ UNCHANGED << tickers_vec, quote_board, emitted, bus, tcpVars, udpVars, dispVars,
                    inbox, now, clientVars >>

\* SpecDisp: the dispatcher with its loop top and its receive as two steps,
\* a generator that can fail, one connection that subscribes, and the stop
\* flag.  No transmitter empties the inbox, so sends also time out.  Every
\* thread that can take a step takes it in the end, and the dispatcher gets
\* the lock when it is free again and again.
NextDisp ==
    \/ GeneratorTick({ FALSE })
    \/ GeneratorPanic
    \/ Listener(1..DataConn)
    \/ (\E c \in 1..DataConn : Greet(c))
    \/ (\E c \in 1..DataConn, line \in StreamLines : StreamCmd(c, line, LiveSubs))
    \/ (\E c \in 1..DataConn : StreamBody(c))
    \/ DispStop
    \/ DispTop
    \/ DispWait
    \/ DispLock
    \/ DispSnapshot
    \/ (\E k \in Subs : DispSend(k))

SpecDisp ==
    /\ Init
    /\ [][NextDisp]_vars
    /\ WF_vars(DispTop)
    /\ WF_vars(DispWait)
    /\ SF_vars(DispLock)
    /\ WF_vars(DispSnapshot)
    /\ WF_vars(\E k \in Subs : DispSend(k))
    /\ WF_vars(\E c \in 1..DataConn : StreamBody(c))

\* SpecShake: the client's main on a fresh connection and the handler of
\* that connection, which can be closed at any point; the reply is any of
\* the replies the handler sends.
NextShake ==
    \/ PeerWrite
    \/ (\E text \in { ResponseOk("stream started"), ResponseOk("canceled"),
                       ResponseErr("invalid command"), ResponseErr("empty line") } :
           PeerAnswer(text))
    \/ PeerClose
    \/ MainSkip
    \/ (\E failed \in BOOLEAN : MainSend(failed))
    \/ MainReply
    \/ (client.main = "udp" /\ ClientBind)
    \/ (client.main = "udp" /\ Tick)

InitShake ==
    /\ tickers_vec = ServerTickerFile
    /\ quote_board \in { b \in init_quote_board(tickers_vec) :
                            b["AAPL"] = ExpensiveMin /\ b["MSFT"] = MiddleMin }
    /\ emitted = << >>
    /\ gen_alive = TRUE
    /\ bus = << >>
    /\ InitServer
    /\ wire = NoWire
    /\ cli = NoCli
    /\ client = [NoClient EXCEPT !.main = "skip", !.peer = "banner"]

SpecShake == InitShake /\ [][NextShake]_vars

\* SpecWire: one quote from next_gen through start_generator, a transmitter
\* subscribed to ALL and the client's recv_loop, for every quote of
\* WireQuotes and both start_generator functions.
Timestamps == { 1, 1700000000 }

WireQuotes ==
    { StockQuote(ticker, price, volume, timestamp, transaction) :
        ticker \in Range(ServerTickerFile),
        price \in { LowMin, LowMax, ExpensiveMin, ExpensiveMax },
        volume \in { UnitsMin, UnitsMax },
        timestamp \in Timestamps,
        transaction \in Transaction }

InitWire ==
    /\ tickers_vec = ServerTickerFile
    /\ quote_board \in { b \in init_quote_board(tickers_vec) :
                            b["AAPL"] = ExpensiveMin /\ b["MSFT"] = MiddleMin }
    /\ emitted = << >>
    /\ gen_alive = TRUE
    /\ bus = << >>
    /\ InitServer
    /\ \E q \in WireQuotes : wire = [NoWire EXCEPT !.pc = "quote", !.quote = q]
    /\ client = NoClient
    /\ cli = NoCli

NextWire ==
    \/ \E generator \in Generators : WireSerialize(generator)
    \/ WireForward
    \/ WireDecode

SpecWire == InitWire /\ [][NextWire]_vars

\* SpecClient: the client's UDP side alone: datagrams arrive from any of
\* the addresses 1..MaxSources in any order while the clock advances.
NextClient ==
    \/ ClientBind
    \/ \E addr \in 1..MaxSources : RecvLoop(addr)
    \/ PingThread
    \/ ClientCtrlC
    \/ Tick

SpecClient == Init /\ [][NextClient]_vars

\* SpecKeep: one client behind a STREAM ... ALL subscription, with the clock.
\* Every wait in the code is shorter than a second (the generator sleeps
\* 100 ms, the dispatcher waits 200 ms, a transmitter's loop waits 500 ms and
\* 200 ms, the ping thread sleeps 100 ms), so a second passes only when the
\* steps that were due in it have been taken.
Received(k) == Cardinality({ i \in DOMAIN client.got : client.got[i] = k })

\* The client binds its socket after the reply to its STREAM.
KeepBind == Len(subs) > 0 /\ ClientBind

\* A datagram a transmitter has sent reaches the client's recv_loop.
KeepRecv(k) == Received(k) < Len(sent[k]) /\ RecvLoop(k)

Prompt ==
    /\ ~ENABLED GeneratorTick({ FALSE })
    /\ bus = << >>
    /\ disp.pc = "recv"
    /\ \A c \in Conns : conn[c].pc \notin { "stream", "cancel" }
    /\ \A k \in Subs :
         tx[k].pc # "done" => tx[k].pc = "top" /\ sock[k] = << >> /\ inbox[subs[k].recv] = << >>
    /\ Len(subs) > 0 => client.pc # "idle"
    /\ client.pc = "run" =>
         /\ now - client.last < PING_INTERVAL_SECS
         /\ Len(client.got) = MaxGot \/ \A k \in Subs : Received(k) = Len(sent[k])

TickKeep == Prompt /\ Tick

NextKeep ==
    \/ GeneratorTick({ FALSE })
    \/ Listener(1..DataConn)
    \/ (\E c \in 1..DataConn : Greet(c))
    \/ (\E c \in 1..DataConn : StreamCmd(c, AllLine, LiveSubs))
    \/ (\E c \in 1..DataConn : StreamBody(c))
    \/ (\E c \in 1..DataConn : CancelCmd(c, "CANCEL"))
    \/ (\E c \in 1..DataConn : CancelBody(c))
    \/ Dispatcher
    \/ Transmitters
    \/ KeepBind
    \/ (\E k \in Subs : KeepRecv(k))
    \/ PingThread
    \/ TickKeep

SpecKeep == Init /\ [][NextKeep]_vars

\* SpecLive: one connection that sends STREAM, its transmitters, the client's
\* datagrams and the clock.
NextLive ==
    \/ GeneratorTick({ FALSE })
    \/ Listener(1..DataConn)
    \/ (\E c \in 1..DataConn : Greet(c))
    \/ (\E c \in 1..DataConn, line \in StreamLines : StreamCmd(c, line, LiveSubs))
    \/ (\E c \in 1..DataConn : StreamBody(c))
    \/ Dispatcher
    \/ Transmitters
    \/ (\E k \in Subs, msg \in Datagrams : ClientPing(k, msg))
    \/ Tick

SpecLive == Init /\ [][NextLive]_vars

(***************************************************************************)
(* Properties.                                                             *)
(***************************************************************************)
\* C1: for every subscription with a non-empty filter, every datagram its
\* transmitter has sent carries a quote whose ticker is in the filter.
C1_FilterRespected ==
    \A k \in Subs :
        subs[k].tickers # {} =>
            \A i \in DOMAIN sent[k] : sent[k][i].ticker \in subs[k].tickers

\* A transmitter with the filter {AAPL} has sent a datagram and has then
\* taken a quote of another ticker from its inbox.
C1_Witness ==
    \E k \in Subs :
        /\ subs[k].tickers = { "AAPL" }
        /\ Len(sent[k]) > 0
        /\ tx[k].why = "filter"

\* C2: after CANCEL has been processed on a connection, no transmitter that
\* was started by a STREAM of that connection sends a datagram any more.
C2_NoDatagramAfterCancel ==
    [][ \A k \in Subs : cancelled[k] => sent'[k] = sent[k] ]_vars

\* C3 as claimed: once a subscription's stop flag is true, its transmitter
\* sends no further datagram.
C3_NoDatagramOnceStopped ==
    [][ \A k \in Subs : stop_flag[k] => sent'[k] = sent[k] ]_vars

\* C3 as amended: a transmitter sends at most one datagram while its stop
\* flag is true (the one of the loop pass that had checked the flag before it
\* was set), and a transmitter that has seen the flag sends nothing.
C3_AtMostOneLate ==
    /\ [](\A k \in Subs : tx[k].late <= 1)
    /\ [][ \A k \in Subs : tx[k].pc = "done" => sent'[k] = sent[k] ]_vars

\* A transmitter has sent a datagram after its stop flag was set.
C3_Witness == \E k \in Subs : tx[k].late = 1 /\ stop_flag[k]

\* C4: when the last accepted ping (or the start) is older than the ping
\* timeout at a loop-top check, the transmitter ends at that check, and an
\* ended transmitter sends no datagram.
C4_TimeoutStops ==
    [][ \A k \in Subs :
          /\ ( /\ tx[k].pc = "top"
               /\ tx'[k] # tx[k]
               /\ now - tx[k].last_ping > UDP_PING_TIMEOUT_SECS )
             => tx'[k].pc = "done" /\ sent'[k] = sent[k]
          /\ tx[k].pc = "done" => tx'[k].pc = "done" /\ sent'[k] = sent[k] ]_vars

\* A transmitter that had sent datagrams has ended by the ping timeout.
C4_Witness == \E k \in Subs : tx[k].why = "timeout" /\ Len(sent[k]) > 0

C6_SessionIds ==
    /\ alloc # << >> => alloc[1] = 1000
    /\ \A i, j \in DOMAIN alloc : i < j => alloc[i] < alloc[j]
    /\ \A c, d \in Conns :
          ( /\ c # d
            /\ conn[c].pc \notin { "none", "greet" }
            /\ conn[d].pc \notin { "none", "greet" } ) => conn[c].id # conn[d].id
    /\ \A k, m \in Subs :
          subs[k].tcp_addr # subs[m].tcp_addr => subs[k].unique_id # subs[m].unique_id

\* Two connections have their ids and each has a subscription.
C6_Witness ==
    /\ Len(alloc) >= 2
    /\ \E k, m \in Subs : subs[k].tcp_addr # subs[m].tcp_addr

\* C7 as claimed: the registry is not mutated while the dispatcher is sending
\* a quote to the senders of a snapshot.
C7_NoMutationDuringSend ==
    [][ disp.pc = "send" => clients' = clients ]_vars

\* C7 as amended: the registry is not mutated while the dispatcher holds its
\* lock to take the snapshot; the lock is free while the snapshot is sent.
C7_NoMutationDuringSnapshot ==
    /\ [][ disp.pc = "snap" => clients' = clients ]_vars
    /\ [](disp.pc = "send" => lock.who # "dispatcher")

\* The dispatcher holds the lock over a registry with a client while a
\* handler is in the session.
C7_Witness ==
    /\ disp.pc = "snap"
    /\ DOMAIN clients # {}
    /\ \E c \in Conns : conn[c].pc = "read"

\* C8: every quote the generator has emitted has a ticker of the loaded list.
C8_TickerKnown ==
    \A i \in DOMAIN emitted : emitted[i].ticker \in Range(tickers_vec)

\* The generator has emitted MaxGen quotes for a list of four tickers.
C8_Witness == Len(emitted) = MaxGen /\ Len(tickers_vec) = 4

\* C9: every price on the board and in every emitted quote is within
\* [LowMin, ExpensiveMax].
C9_PriceInBand ==
    /\ \A t \in DOMAIN quote_board :
          LowMin <= quote_board[t] /\ quote_board[t] <= ExpensiveMax
    /\ \A i \in DOMAIN emitted :
          LowMin <= emitted[i].price /\ emitted[i].price <= ExpensiveMax

\* A price at the top of the band was redrawn from the Expensive band, and
\* a price at the bottom of the band from the Low band.
C9_Witness ==
    /\ \E i, j \in DOMAIN emitted :
          /\ i < j
          /\ emitted[i].ticker = emitted[j].ticker
          /\ emitted[i].price = ExpensiveMax
          /\ emitted[j].price = ExpensiveMin
    /\ \E t \in DOMAIN quote_board : quote_board[t] = LowMax

\* C10: CANCEL is answered OK|canceled whatever the state; afterwards the
\* session has no registry entry, and when it had none before the registry
\* and the stop flags are unchanged.
C10_CancelIdempotent ==
    [][ \A c \in Conns :
          (conn[c].pc = "cancel" /\ conn'[c].pc = "read") =>
              /\ written'.c = c
              /\ written'.text = << "OK", "|", "canceled" >>
              /\ conn[c].id \notin DOMAIN clients'
              /\ conn[c].id \notin DOMAIN clients =>
                    clients' = clients /\ stop_flag' = stop_flag ]_vars

\* A CANCEL was answered on a connection that never had a subscription while
\* another connection has one.
C10_Witness ==
    \E c \in Conns :
        /\ written.c = c
        /\ written.text = << "OK", "|", "canceled" >>
        /\ \A k \in Subs : subs[k].tcp_addr # c
        /\ DOMAIN clients # {}

\* C11: a STREAM line with fewer than two arguments is answered
\* ERROR|komanda nepolnaya; with two arguments and a URL of another scheme
\* than udp, ERROR|podderzhivaetsya tolko UDP; with a udp URL and a list that
\* holds a ticker not loaded, ERROR|nekorrektnye tikery; with a udp URL and
\* the spec ALL (any letter case) or a list of loaded tickers it is accepted.
C11_StreamValidation ==
    [][ \A c \in Conns :
          LET accepted == conn[c].pc = "read" /\ conn'[c].pc = "stream"
              L == IF accepted THEN conn'[c].pending.line ELSE written'.line
              answered == conn[c].pc = "read" /\ written'.c = c
              is_stream == L.cmd \in { "STREAM", "stream", "Stream" }
              udp == L.url \in { "udp://127.0.0.1:34254", "UDP://127.0.0.1:34254" }
              http == L.url = "http://127.0.0.1:34254"
              all == L.spec \in { << "ALL" >>, << "all" >>, << "All" >> }
              loaded == \A i \in DOMAIN L.spec :
                           L.spec[i] \in { "AAPL", "MSFT", "aapl", "msft", "" }
          IN  ((accepted \/ answered) /\ is_stream) =>
                /\ L.nargs < 2 =>
                     ~accepted /\ written'.text = << "ERROR", "|", "komanda nepolnaya" >>
                /\ (L.nargs >= 2 /\ http) =>
                     ~accepted /\ written'.text = << "ERROR", "|", "podderzhivaetsya tolko UDP" >>
                /\ (L.nargs >= 2 /\ udp /\ ~all /\ ~loaded) =>
                     ~accepted /\ written'.text = << "ERROR", "|", "nekorrektnye tikery" >>
                /\ (L.nargs >= 2 /\ udp /\ (all \/ loaded)) => accepted ]_vars

\* The line STREAM http://127.0.0.1:34254 ALL has been answered with the
\* UDP-only error on a connection that has a subscription.
C11_Witness ==
    \E c \in Conns :
        /\ written.c = c
        /\ written.line = Line("STREAM", 2, "http://127.0.0.1:34254", << "ALL" >>)
        /\ written.text = << "ERROR", "|", "podderzhivaetsya tolko UDP" >>
        /\ \E k \in Subs : subs[k].tcp_addr = c /\ subs[k].tickers = { "AAPL", "MSFT" }

\* C12: an empty line is answered ERROR|empty line, a line with an unknown
\* command ERROR|invalid command, a malformed STREAM ERROR|<detail>; the step
\* that writes an ERROR leaves the connection open and the registry, the
\* subscription objects, their stop flags and the transmitters unchanged,
\* and in the state it leaves a valid STREAM on that connection is accepted.
C12_BadInputHarmless ==
    /\ [][ \A c \in Conns :
             (written'.c = c /\ conn[c].pc = "read") =>
               /\ written'.line.cmd = "" =>
                    written'.text = << "ERROR", "|", "empty line" >>
               /\ written'.line.cmd \in { "FOO", "STREAMS" } =>
                    written'.text = << "ERROR", "|", "invalid command" >>
               /\ written'.line \in BadStreamLines =>
                    /\ Len(written'.text) = 3
                    /\ written'.text[1] = "ERROR"
                    /\ written'.text[3] # ""
               /\ written'.text[1] = "ERROR" =>
                    /\ conn'[c].pc = "read"
                    /\ conn'[c].id = conn[c].id
                    /\ \A d \in Conns \ { c } : conn'[d] = conn[d]
                    /\ UNCHANGED << clients, lock, subs, stop_flag, tx, sent, sock,
                                    inbox, CLIENTS_COUNTER >> ]_vars
    /\ [](\A c \in Conns :
            ( /\ written.c = c
              /\ written.text # << >>
              /\ written.text[1] = "ERROR"
              /\ lock = Free
              /\ Len(subs) < MaxSubs )
            => ENABLED ( /\ StreamCmd(c, Line("STREAM", 2, "udp://127.0.0.1:34254", << "ALL" >>), MaxSubs)
                         /\ conn'[c].pc = "stream" ))

\* A connection that was answered an ERROR has then been answered
\* OK|stream started, and its subscription is the only one registered.
C12_Witness ==
    \E c \in Conns :
        /\ conn[c].rejected
        /\ written.c = c
        /\ written.text = << "OK", "|", "stream started" >>
        /\ Len(subs) = 1
        /\ DOMAIN clients = { conn[c].id }

\* C13: every response the server writes is one complete line: its last
\* part is the line terminator "\n".
C13_ResponseIsLine ==
    written.text # << >> => written.text[Len(written.text)] = "\n"

\* C14: every subscription has an inbox of its own into which the dispatcher
\* puts each quote once, so the quote offered to one subscription is never
\* taken by the transmitter of another: no two subscriptions read one
\* channel, and no transmitter sends one quote twice.
C14_FanOutToEach ==
    /\ \A k, m \in Subs : k # m => subs[k].recv # subs[m].recv
    /\ \A k \in Subs : \A i, j \in DOMAIN sent[k] :
          i # j => sent[k][i].seq # sent[k][j].seq

\* C15: when no sender of the list is disconnected, each step of
\* tickers_sender serves exactly one sender and goes on with all the others:
\* a sender whose channel is full gets nothing (the quote is dropped for it),
\* a sender whose channel has room gets the quote appended, and the quote
\* and the remaining senders are kept until the list is done.
C15_SlowDoesNotBlock ==
    [][ ( /\ disp.pc = "send"
          /\ disp' # disp
          /\ \A m \in disp.senders : subs[m].recv # "dropped" )
        => \E k \in disp.senders :
             /\ disp'.senders = disp.senders \ { k }
             /\ disp'.quote = disp.quote
             /\ disp'.pc = IF disp.senders = { k } THEN "recv" ELSE "send"
             /\ inbox' = IF Len(inbox[subs[k].recv]) = InboxCap
                         THEN inbox
                         ELSE [inbox EXCEPT ![subs[k].recv] = Append(@, disp.quote)] ]_vars

\* tickers_sender was called with two senders and is done: the channel of
\* one was full and does not hold the message, the channel of the other
\* holds it.
C15_Witness ==
    /\ Len(subs) = 2
    /\ disp.pc = "recv"
    /\ \E k, m \in Subs :
          /\ subs[k].recv = "receiver"
          /\ inbox["receiver"] = Fill(InboxCap)
          /\ subs[m].recv = "private"
          /\ inbox["private"] # << >>
          /\ inbox["private"][Len(inbox["private"])] = Message

\* C16: every step of tickers_sender, also one whose send fails because the
\* channel is disconnected, removes only the sender it served from the
\* list: all the other senders are still to be offered the quote.
C16_DisconnectedContinues ==
    [][ (disp.pc = "send" /\ disp' # disp)
        => \E k \in disp.senders :
             /\ disp'.senders = disp.senders \ { k }
             /\ disp'.quote = disp.quote
             /\ disp'.pc = IF disp.senders = { k } THEN "recv" ELSE "send" ]_vars

\* C17: every subscription object that is in the registry with its stop
\* flag false has a transmitter that has not ended, and a subscription
\* whose transmitter ended by the ping timeout has its stop flag true and is
\* not in the registry.
C17_LifetimeInvariant ==
    \A k \in Subs :
        LET registered == \E i \in DOMAIN clients : clients[i] = k IN
        /\ (registered /\ ~stop_flag[k]) => tx[k].pc # "done"
        /\ tx[k].why = "timeout" => (stop_flag[k] /\ ~registered)

\* C18: once run_server has left its accept loop and swept the registry,
\* the stop flag of every subscription object is true, and a transmitter
\* that is still running then has its flag true (so that it ends at its next
\* loop-top check).
C18_ShutdownStopsAll ==
    srv \in { "swept", "exited" } =>
        \A k \in Subs : stop_flag[k] \/ tx[k].pc = "done"

C21_RoundTrip ==
    /\ wire.pc # "idle" =>
         LET back == serde_json_from_str(serde_json_to_string(wire.quote)) IN
         /\ back.ok
         /\ back.quote.ticker = wire.quote.ticker
         /\ back.quote.price = wire.quote.price
         /\ back.quote.volume = wire.quote.volume
         /\ back.quote.timestamp = wire.quote.timestamp
         /\ back.quote.transaction = wire.quote.transaction
    /\ wire.pc = "decoded" => wire.decoded = wire.quote

\* A quote with a fractional price and the largest volume has been
\* serialized to JSON, sent and decoded by the client.
C21_Witness ==
    /\ wire.pc = "decoded"
    /\ wire.quote.price = LowMax
    /\ wire.quote.volume = UnitsMax
    /\ wire.quote.transaction = "Transaction::Sell"
    /\ wire.datagram = serde_json_to_string(wire.quote)

\* C22: a datagram is one JSON object whose members are ticker, price,
\* volume, timestamp and transaction, and the transaction member is the
\* string "buy" for Buy and "sell" for Sell.
C22_DatagramFields ==
    wire.pc = "sent" =>
        /\ wire.datagram.syntax = "json"
        /\ [ i \in DOMAIN wire.datagram.members |-> wire.datagram.members[i][1] ] = FieldNames
        /\ Field(wire.datagram, "ticker") = TokString(wire.quote.ticker)
        /\ Field(wire.datagram, "price").type = "number"
        /\ Field(wire.datagram, "volume") = TokInt(wire.quote.volume)
        /\ Field(wire.datagram, "timestamp") = TokInt(wire.quote.timestamp)
        /\ Field(wire.datagram, "transaction") =
              TokString(IF wire.quote.transaction = "Transaction::Buy" THEN "buy" ELSE "sell")

\* C23: the payload start_generator hands to the channel is the datagram
\* format: the transmitter's parser accepts it (the transmitter never returns
\* on it) and the datagram sent is the payload unchanged.
C23_PayloadIsDatagram ==
    /\ wire.pc # "returned"
    /\ wire.pc \in { "bus", "sent", "decoded" } => serde_json_from_str(wire.payload).ok
    /\ wire.pc \in { "sent", "decoded" } => wire.datagram = wire.payload

\* C25: the stored server address is None until a datagram has been
\* received and then it is the source of the first datagram received,
\* whatever sources follow; a stored address is never replaced; no Ping is
\* sent before a datagram has been received and every Ping goes to the
\* source of the first one.
C25_FirstSourceKept ==
    /\ [](client.server_addr = IF client.got = << >> THEN 0 ELSE client.got[1])
    /\ [](\A i \in DOMAIN client.pings : client.got # << >> /\ client.pings[i] = client.got[1])
    /\ [][client.server_addr # 0 => client'.server_addr = client.server_addr]_vars

\* Datagrams from two different sources have been received and two pings
\* have been sent after the second one.
C25_Witness ==
    /\ Len(client.got) >= 2
    /\ client.got[2] # client.got[1]
    /\ Len(client.pings) >= 2
    /\ client.server_addr = client.got[1]

RECURSIVE FileLines(_, _)
FileLines(list, style) ==
    IF list = << >> THEN << >>
    ELSE (CASE style = "plain"  -> << Head(list) >>
            [] style = "padded" -> << << " " >> \o Head(list) \o << " ", " " >> >>
            [] style = "blanks" -> << << >>, Head(list), << " ", " " >> >>)
         \o FileLines(Tail(list), style)

\* A port argument is a number (from below, at and above the range's ends,
\* the default port, u16::MAX and numbers that wrap into the range as u16)
\* written plainly, with '+' or with a leading zero, which str::parse reads
\* as that number, or with '-', a trailing blank or a decimal point, or a
\* text that is no number.  A command is cancel or stream, with no file, a
\* file that cannot be opened, or a file that lists up to MaxLines tickers
\* (the last one has a blank inside) in one of three layouts.
InitCli ==
    LET PortNumbers ==
            { 0, 1, TCP_PORTS_ALLOWED[1] - 1, TCP_PORTS_ALLOWED[1], TCP_PORTS_ALLOWED[1] + 1,
              DEFAULT_SERVER_PORT, TCP_PORTS_ALLOWED[2], TCP_PORTS_ALLOWED[2] + 1,
              U16Max, U16Max + 1, U16Max + 1 + TCP_PORTS_ALLOWED[1],
              U16Max + 1 + DEFAULT_SERVER_PORT }
        NumberStyles == { "plain", "plus", "zero" }
        BrokenStyles == { "minus", "space", "point" }
        PortText(n, style) ==
            CASE style = "plain" -> Digits(n)
              [] style = "plus"  -> << "+" >> \o Digits(n)
              [] style = "zero"  -> << "0" >> \o Digits(n)
              [] style = "minus" -> << "-" >> \o Digits(n)
              [] style = "space" -> Digits(n) \o << " " >>
              [] style = "point" -> Digits(n) \o << ".", "0" >>
        JunkTexts ==
            { << >>, << "+" >>, << "-" >>, << "a", "b", "c" >>, << "0", "x", "4", "0", "0" >> }
        TickerWords == { << "AAPL" >>, << "TSLA" >>, << "msft" >>, << "BRK", " ", "B" >> }
        TickerLists == UNION { [1..n -> TickerWords] : n \in 0..MaxLines }
        FileStyles == { "plain", "padded", "blanks" }
        UdpPorts == { ALLOW_UDP_PORTS[1], 34254 }
    IN
    \/ \E n \in PortNumbers, style \in NumberStyles \cup BrokenStyles :
         cli = [NoCli EXCEPT !.pc = "port", !.number = (style \in NumberStyles),
                             !.n = n, !.text = PortText(n, style)]
    \/ \E text \in JunkTexts :
         cli = [NoCli EXCEPT !.pc = "port", !.text = text]
    \/ \E udp \in UdpPorts :
         \/ cli = [NoCli EXCEPT !.pc = "command", !.sub = "Cancel", !.udp = udp]
         \/ cli = [NoCli EXCEPT !.pc = "command", !.sub = "Stream", !.udp = udp]
         \/ cli = [NoCli EXCEPT !.pc = "command", !.sub = "Stream", !.udp = udp,
                                !.file = [ given |-> TRUE, exists |-> FALSE, lines |-> << >> ]]
         \/ \E list \in TickerLists, style \in FileStyles :
              cli = [NoCli EXCEPT !.pc = "command", !.sub = "Stream", !.udp = udp,
                                  !.list = list,
                                  !.file = [ given |-> TRUE, exists |-> TRUE,
                                             lines |-> FileLines(list, style) ]]

InitCliState ==
    /\ tickers_vec = ServerTickerFile
    /\ quote_board \in { b \in init_quote_board(tickers_vec) :
                            b["AAPL"] = ExpensiveMin /\ b["MSFT"] = MiddleMin }
    /\ emitted = << >>
    /\ gen_alive = TRUE
    /\ bus = << >>
    /\ InitServer
    /\ wire = NoWire
    /\ client = NoClient
    /\ InitCli

NextCli ==
    \/ ServerPort
    \/ ClientTcpPort
    \/ ClientUdpPort
    \/ ClientSetNew

SpecCli == InitCliState /\ [][NextCli]_vars

\* C26: a port text is accepted by the server's validator and by the
\* client's two validators exactly when it is a number from 1024 to 49151,
\* and the accepted port is that number; a number below 1024 or above
\* 49151 and a text that is not a number are rejected.
C26_PortAccepted ==
    cli.pc \in { "server", "client tcp", "client udp" } =>
        /\ cli.result.ok <=> (cli.number /\ 1024 <= cli.n /\ cli.n <= 49151)
        /\ cli.result.ok => cli.result.port = cli.n

C26_Witness ==
    /\ cli.pc = "client udp"
    /\ cli.text = << "+", "4", "9", "1", "5", "1" >>
    /\ cli.result = [ ok |-> TRUE, port |-> 49151 ]

\* C27: the command ClientSet::new builds is "CANCEL <udp-url>" for cancel,
\* "STREAM <udp-url> ALL" for stream with no file or with an empty ticker
\* list, and "STREAM <udp-url> T1,T2,..." with the file's tickers in file
\* order for stream with a file that lists tickers.
C27_Command ==
    cli.pc = "built" =>
        LET url == << "udp://", UDP_CALLBACK, ":" >> \o Digits(cli.udp)
            listed == IF cli.file.given /\ cli.file.exists THEN cli.list ELSE << >>
            RECURSIVE CommaList(_)
            CommaList(list) ==
                IF Len(list) = 1 THEN Head(list)
                ELSE Head(list) \o << "," >> \o CommaList(Tail(list))
        IN  /\ cli.sub = "Cancel" => cli.command = << "CANCEL", " " >> \o url
            /\ cli.sub = "Stream" /\ listed = << >> =>
                   cli.command = << "STREAM", " " >> \o url \o << " ", "ALL" >>
            /\ cli.sub = "Stream" /\ listed # << >> =>
                   /\ cli.tickers = listed
                   /\ cli.command = << "STREAM", " " >> \o url \o << " " >> \o CommaList(listed)

C27_Witness ==
    /\ cli.pc = "built"
    /\ cli.sub = "Stream"
    /\ Len(cli.file.lines) = 6
    /\ cli.tickers = << << "TSLA" >>, << "AAPL" >> >>
    /\ cli.command = << "STREAM", " ", "udp://", "127.0.0.1", ":", "3", "4", "2", "5", "4",
                         " ", "TSLA", ",", "AAPL" >>

\* C28: a transmitter that takes from its inbox a quote whose ticker is not
\* in its non-empty filter drops the quote, sends nothing and goes on with
\* its loop, and a transmitter that has ended has ended on its stop flag or
\* on the ping timeout.
C28_MismatchKeepsRunning ==
    \A k \in Subs :
        /\ tx[k].why # "filter"
        /\ tx[k].pc = "done" => tx[k].why \in { "stop", "timeout" }

\* C29: the dispatcher holds the registry lock only while it collects the
\* snapshot: no quote is put into an inbox while the dispatcher holds the
\* lock, and the lock is not the dispatcher's at any point of the sending of
\* a snapshot, so that a STREAM or CANCEL handler can take it meanwhile.
C29_LockNotHeldAcrossSend ==
    /\ [](lock.who = "dispatcher" => disp.pc = "snap")
    /\ [][ (\E ch \in DOMAIN inbox : Len(inbox'[ch]) > Len(inbox[ch])) =>
              (lock.who # "dispatcher" /\ lock'.who # "dispatcher") ]_vars

\* A CANCEL handler holds the lock while the dispatcher is about to offer a
\* quote to the inbox of that handler's subscription.
C29_Witness ==
    /\ disp.pc = "send"
    /\ \E c \in Conns :
          /\ conn[c].pc = "cancel"
          /\ lock = HeldBy("handler", c)
          /\ \E k \in disp.senders : subs[k].tcp_addr = c

\* C30: a quote that meets a full bus is dropped: the bus is left as it was
\* and the generator goes on; the only quote a step puts on the bus is the
\* one emitted in that step, so a dropped quote is never sent later; a quote
\* that meets a closed bus ends the generator, which then emits no more.
C30_GeneratorBackpressure ==
    /\ [][ (Len(emitted') > Len(emitted) /\ disp.pc # "done" /\ Len(bus) >= BusCap) =>
              (bus' = bus /\ gen_alive') ]_vars
    /\ [][ Len(bus') > Len(bus) =>
              (Len(emitted') = Len(emitted) + 1
               /\ bus' = Append(bus, emitted'[Len(emitted')])) ]_vars
    /\ [][ (Len(emitted') > Len(emitted) /\ disp.pc = "done") =>
              (~gen_alive' /\ bus' = bus) ]_vars
    /\ [][ ~gen_alive => (emitted' = emitted /\ ~gen_alive' /\ Len(bus') <= Len(bus)) ]_vars

\* The second quote met a bus that still held the first one: it is in no
\* channel, and the generator is alive.
C30_Witness ==
    /\ Len(emitted) = 2
    /\ bus = << emitted[1] >>
    /\ gen_alive
    /\ disp.pc = "recv"

\* C31: once the stop flag is set the dispatcher begins no further receive
\* (the one it is in may still return a quote, which is fanned out) and it
\* ends; a receive that times out changes nothing and leads back to the
\* loop top; a receive on a bus whose sender is dropped ends the dispatcher.
C31_DispatcherTerminates ==
    /\ [][ (disp_stop /\ disp'.pc = "wait") => disp.pc = "wait" ]_vars
    /\ [][ (disp.pc = "wait" /\ disp'.pc = "recv") =>
              (bus' = bus /\ inbox' = inbox /\ lock' = lock /\ disp'.quote = disp.quote) ]_vars
    /\ [][ (disp' # disp /\ disp.pc = "wait" /\ bus = << >> /\ ~gen_alive) =>
              disp'.pc = "done" ]_vars
    /\ (disp_stop ~> disp.pc = "done")
    /\ ((~gen_alive) ~> disp.pc = "done")

\* The stop flag was set while the dispatcher was in its receive: that
\* receive returned a quote, and the dispatcher is sending it.
C31_Witness ==
    /\ disp_stop
    /\ disp.pc = "send"
    /\ bus = << >>
    /\ Len(emitted) = 1

\* C32: in the loop of a transmitter last_ping changes only in the step that
\* reads a datagram which, lower-cased and trimmed, is "ping", and that step
\* sets it to the time of the read; a datagram with another content and a
\* read that times out leave it as it was.
C32_LastPingOnPingOnly ==
    [][ \A k \in Subs :
          tx[k].pc # "start" =>
            LET read == tx[k].pc = "ping" /\ tx'[k].pc = "recv"
                ping == sock[k] # << >> /\ Head(sock[k]) \in { "ping", "Ping", "PING", " PING\n" }
            IN  /\ (read /\ ping) => tx'[k].last_ping = now
                /\ ~(read /\ ping) => tx'[k].last_ping = tx[k].last_ping ]_vars

\* A transmitter that has sent a datagram has just read its socket, and its
\* last_ping is a time after the server's start and before the time of
\* that read.
C32_Witness ==
    \E k \in Subs :
        /\ tx[k].pc = "recv"
        /\ 0 < tx[k].last_ping
        /\ tx[k].last_ping < now
        /\ sock[k] = << >>
        /\ Len(sent[k]) > 0

\* C33: add_client with an id that is in the registry leaves the registry
\* as it is, and otherwise puts the subscription under its id and keeps the
\* other entries; remove_client with an id that is in the registry takes
\* that entry out, keeps the others and hands the subscription back (the
\* handler sets its stop flag), and with an id that is not there it leaves
\* the registry and every stop flag as they are.
C33_RegistryOperations ==
    [][ \A c \in Conns :
          LET id == conn[c].id IN
          /\ (conn[c].pc = "stream" /\ conn'[c].pc = "read") =>
                IF id \in DOMAIN clients
                THEN clients' = clients
                ELSE /\ DOMAIN clients' = DOMAIN clients \cup { id }
                     /\ clients'[id] = Len(subs')
                     /\ subs'[Len(subs')].unique_id = id
                     /\ \A i \in DOMAIN clients : clients'[i] = clients[i]
          /\ (conn[c].pc = "cancel" /\ conn'[c].pc = "read") =>
                IF id \in DOMAIN clients
                THEN /\ DOMAIN clients' = DOMAIN clients \ { id }
                     /\ \A i \in DOMAIN clients' : clients'[i] = clients[i]
                     /\ stop_flag'[clients[id]]
                     /\ \A k \in Subs : k # clients[id] => stop_flag'[k] = stop_flag[k]
                ELSE clients' = clients /\ stop_flag' = stop_flag ]_vars

\* A second STREAM on a connection was refused by add_client: two
\* subscriptions of one connection exist and the registry has one entry,
\* the first of them.
C33_Witness ==
    /\ Len(subs) = 2
    /\ subs[1].tcp_addr = subs[2].tcp_addr
    /\ DOMAIN clients = { subs[1].unique_id }
    /\ clients[subs[1].unique_id] = 1

\* C34: every reply the server has written comes after the banner, the help
\* block and READY; main has sent its command only when it has read a line
\* that is READY; and main has bound its UDP socket only when the last line
\* it read, the reply, starts with OK.
C34_HandshakeOrder ==
    /\ \A i \in DOMAIN client.wrote :
          (client.wrote[i] # << >> /\ Head(client.wrote[i]) \in { "OK", "ERROR" }) =>
             /\ i > 1
             /\ client.wrote[i - 1] = << "READY" >>
             /\ client.wrote[1] = << "Quote Server!" >>
    /\ client.main \in { "reply", "udp" } => << "READY" >> \in Range(client.read)
    /\ client.pc = "run" =>
          /\ client.main = "udp"
          /\ client.read # << >>
          /\ Head(client.read[Len(client.read)]) = "OK"

C36_RunningIsRegistered ==
    \A k \in Subs :
        (tx[k].pc # "done" /\ ~stop_flag[k]) => \E i \in DOMAIN clients : clients[i] = k

\* C37: a stop flag that is true stays true and a transmitter that has ended
\* stays ended; a STREAM on a connection whose earlier subscriptions were all
\* cancelled appends a subscription with the connection's session id and a
\* stop flag equal to false, registers it under that id and starts a new
\* transmitter for it.
C37_StopFlagMonotone ==
    [][ /\ \A k \in DOMAIN stop_flag : stop_flag[k] => stop_flag'[k]
        /\ \A k \in DOMAIN tx : tx[k].pc = "done" => tx'[k].pc = "done"
        /\ \A c \in Conns :
              ( /\ conn[c].pc = "stream" /\ conn'[c].pc = "read"
                /\ \E k \in Subs : subs[k].tcp_addr = c
                /\ \A k \in Subs : subs[k].tcp_addr = c => cancelled[k] )
              => LET n == Len(subs) + 1 IN
                 /\ Len(subs') = n
                 /\ subs'[n].unique_id = conn[c].id
                 /\ ~stop_flag'[n]
                 /\ conn[c].id \in DOMAIN clients' /\ clients'[conn[c].id] = n
                 /\ tx'[n].pc = "start" ]_vars

\* A connection's first subscription was cancelled and its transmitter ended
\* on the stop flag; the second one is registered and its transmitter runs.
C37_Witness ==
    /\ Len(subs) = 2 /\ subs[1].tcp_addr = subs[2].tcp_addr
    /\ cancelled[1] /\ stop_flag[1] /\ tx[1].pc = "done"
    /\ ~stop_flag[2] /\ tx[2].pc \notin { "start", "done" }
    /\ subs[2].unique_id \in DOMAIN clients /\ clients[subs[2].unique_id] = 2

\* main.rs start_generator, one pass of its loop: as the loop of channels.rs
\* but the payload is quote.to_string(), the Display line of the quote, which
\* is not JSON.
MainGeneratorTick ==
    /\ gen_alive
    /\ srv # "exited"
    /\ Len(emitted) < MaxGen
    /\ \E ticker \in random_choice_str(Range(tickers_vec)) :
         IF ticker \notin DOMAIN quote_board
         THEN UNCHANGED genVars
         ELSE LET q == [ new_quote(ticker, quote_board[ticker], Len(emitted) + 1)
                           EXCEPT !.fmt = "display" ] IN
              /\ emitted' = Append(emitted, q)
              /\ IF BusDisconnected
                 THEN gen_alive' = FALSE /\ bus' = bus
                 ELSE /\ gen_alive' = gen_alive
                      /\ bus' = send_timeout(bus, q, BusCap)
              /\ UNCHANGED << tickers_vec, quote_board >>
    /\ written' = Nothing
    /\ UNCHANGED << tcpVars, udpVars, dispVars, inbox, now, clientVars >>

\* SpecFeed: DataConn connections that send STREAM with the list ALL or the
\* list ",", a generator that hands out JSON payloads and Display lines, the
\* dispatcher and the transmitters.
CommaLine == Line("STREAM", 2, "udp://127.0.0.1:34254", << "", "" >>)

NextFeed ==
    \/ GeneratorTick({ FALSE })
    \/ MainGeneratorTick
    \/ Listener(1..DataConn)
    \/ (\E c \in 1..DataConn : Greet(c))
    \/ (\E c \in 1..DataConn, line \in { AllLine, CommaLine } : StreamCmd(c, line, MaxSubs))
    \/ (\E c \in 1..DataConn : StreamBody(c))
    \/ Dispatcher
    \/ Transmitters

SpecFeed == Init /\ [][NextFeed]_vars

\* C38: a STREAM with the ticker list "," is answered OK|stream started and
\* its subscription has an empty filter; a transmitter whose filter is empty
\* sends every quote it takes from its inbox that deserializes, as a
\* transmitter of an ALL subscription does.
C38_EmptyFilterForwardsAll ==
    /\ [](written # Nothing /\ written.line = CommaLine => written.text = ResponseOk("stream started"))
    /\ [](\A c \in Conns : conn[c].pc = "stream" /\ conn[c].pending.line = CommaLine
                              => conn[c].pending.tickers = {})
    /\ [][ \A k \in Subs :
             ( /\ tx[k].pc = "recv" /\ tx'[k].pc # "recv"
               /\ inbox[subs[k].recv] # << >>
               /\ Deserialize(Head(inbox[subs[k].recv])).ok
               /\ subs[k].tickers \in { {}, Range(tickers_vec) } )
             => /\ sent'[k] = Append(sent[k], Head(inbox[subs[k].recv]))
                /\ tx'[k].pc = "top" ]_vars

\* The transmitter of a subscription with an empty filter has sent a quote.
C38_Witness == \E k \in Subs : subs[k].tickers = {} /\ Len(sent[k]) > 0 /\ tx[k].pc = "top"

\* C39: a transmitter that takes a payload that is not JSON from its inbox
\* ends in that step: no datagram is sent, no stop flag and no registry entry
\* changes; a transmitter that has ended sends nothing more.
C39_ParseErrorEndsThread ==
    [][ \A k \in Subs :
          /\ ( /\ tx[k].pc = "recv" /\ tx'[k].pc # "recv"
               /\ inbox[subs[k].recv] # << >>
               /\ Head(inbox[subs[k].recv]).fmt # "json" )
             => /\ tx'[k].pc = "done"
                /\ sent'[k] = sent[k]
                /\ stop_flag' = stop_flag
                /\ clients' = clients
          /\ tx[k].pc = "done" => tx'[k].pc = "done" /\ sent'[k] = sent[k] ]_vars

\* A transmitter has ended on a payload that did not parse while its stop
\* flag is false and its subscription is an entry of the registry.
C39_Witness ==
    \E k \in Subs :
        /\ tx[k].pc = "done" /\ tx[k].why = "parse"
        /\ ~stop_flag[k]
        /\ subs[k].unique_id \in DOMAIN clients /\ clients[subs[k].unique_id] = k

\* C40: no datagram of the client reaches a transmitter that has sent
\* nothing, so its last_ping stays at its start time, and a transmitter that
\* has ended with its stop flag false and without having sent a datagram has
\* ended by the ping timeout.
C40_SilentTransmitterTimesOut ==
    /\ [](\A k \in Subs : sent[k] = << >> => sock[k] = << >>)
    /\ [][ \A k \in Subs :
             (sent[k] = << >> /\ tx[k].pc # "start") => tx'[k].last_ping = tx[k].last_ping ]_vars
    /\ [](\A k \in Subs :
             (tx[k].pc = "done" /\ sent[k] = << >> /\ ~stop_flag[k]) => tx[k].why = "timeout")

====
